---- MODULE Spec2Model ----
(***************************************************************************)
(* Verification model of the agent supervisor of termux-kotlin-app:        *)
(*   agents/core/runtime/executor.py     gated executor                    *)
(*   agents/core/supervisor/agentd.py    daemon, run_task pipeline         *)
(*   agents/core/registry/skill_registry.py, agents/skills/loader.py,      *)
(*   agents/skills/base.py               skill validation, load, call      *)
(*   agents/core/runtime/memory.py       per-agent memory document         *)
(*   agents/core/runtime/sandbox.py      per-agent sandbox directory       *)
(*   agents/core/swarm/swarm.py, signals.py   the swarm signal board       *)
(*   agents/orchestrator/graph_engine.py      the task graph               *)
(*                                                                         *)
(* The specifications share the variables:                                 *)
(*   SpecExec     calls on one AgentExecutor, the daemon's network check   *)
(*   SpecTask     AgentDaemon.run_task, one pipeline step per action       *)
(*   SpecMem      calls on one AgentMemory instance, short histories       *)
(*   SpecHistory  one writer appending more than 1000 history entries      *)
(*   SpecConc     threads with one AgentMemory instance each, one file     *)
(*   SpecBox      check_sandbox_access and AgentSandbox path operations    *)
(*   SpecSwarm    one SwarmCoordinator: emit, claim_task, decay_all, clear *)
(*   SpecSense    one SwarmCoordinator: emit, sense, get_consensus, decay  *)
(*   SpecGraph    one GraphEngine: add_node, validate, execute             *)
(*   SpecRegistry one SkillRegistry: skill directories, discover           *)
(*   SpecCaps     check_agent_capability and _check_skill_capabilities     *)
(*   SpecFleet    agents with one SwarmCoordinator each, one directory     *)
(*   SpecGraphFair  SpecGraph where a running execute keeps running        *)
(*                                                                         *)
(* Conventions.  Python None and the empty string are both "" where the    *)
(* code only tests truthiness.  A command word is a path split at "/",     *)
(* i.e. a sequence of components, so that os.path.basename is computed.    *)
(* A JSON value stored in memory is represented by its serialized length.  *)
(***************************************************************************)
EXTENDS Integers, Sequences, FiniteSets, TLC

VARIABLES
    agents,      \* AgentDaemon._agents: name -> AgentConfig
    osEnviron,   \* os.environ restricted to the proxy variables
    executor,    \* the AgentExecutor under test (SpecExec)
    exCall,      \* arguments of the last executor call
    exOutcome,   \* how that call ended
    exProc,      \* the subprocess.run invocation of that call, if any
    netCheck,    \* result of the last AgentDaemon.check_network_access
    skillsDir,   \* <agents_root>/skills: skill name -> directory content
    memFile,     \* <agents_root>/memory/<agent>.json
    logFile,     \* <agents_root>/logs/<agent>.log, (action, status) per line
    pc,          \* position of run_task
    task,        \* arguments of the running run_task call
    steps,       \* run_task's local list of TaskStep
    execResult,  \* run_task's local `result` (from _execute_task)
    taskResult,  \* the TaskResult dict returned by run_task
    raised,      \* an exception left run_task
    events,      \* side effects of the running task, in order
    tasksRun,    \* number of run_task calls started
    memCall,     \* last AgentMemory call and what it returned
    nAppended,   \* append_history calls since the history was last empty
    thread,      \* per thread: its AgentMemory instance and the call it is in
    fileLock,    \* fcntl.flock holders of the memory file
    sandboxesDir, \* AgentDaemon.sandboxes_dir, a path
    boxCall,     \* last sandbox check or AgentSandbox call and its result
    index,       \* <swarm_dir>/index.json: signal id -> type, agent, target
    signalFiles, \* <swarm_dir>/signals/<id>.json: signal id -> Signal
    clock,       \* time.time(), in seconds
    idsUsed,     \* number of signal ids drawn so far
    emitted,     \* per triple: emit calls since its signal was created
    swarmCall,   \* last SwarmCoordinator call and what it returned
    sensed,      \* what the last call returned, if it was a query
    nodes,       \* GraphEngine.nodes, in insertion order
    edges,       \* GraphEngine.edges
    engine,      \* position and locals of GraphEngine.execute
    report,      \* what the last validate or execute returned
    registry,    \* the SkillRegistry over skillsRoot, and its directory
    capCheck,    \* what the last capability check of the daemon returned
    coord        \* per agent: its own SwarmCoordinator, where it stands

vars == <<agents, osEnviron, executor, exCall, exOutcome, exProc, netCheck,
          skillsDir, memFile, logFile, pc, task, steps, execResult,
          taskResult, raised, events, tasksRun, memCall, nAppended, thread,
          fileLock, sandboxesDir, boxCall, index, signalFiles, clock,
          idsUsed, emitted, swarmCall, sensed, nodes, edges, engine,
          report, registry, capCheck, coord>>

execVars == <<executor, exCall, exOutcome, exProc, netCheck>>
taskVars == <<skillsDir, logFile, pc, task, steps, execResult, taskResult,
              raised, events, tasksRun>>
memVars  == <<memCall, nAppended>>
concVars == <<thread, fileLock>>
boxVars  == <<sandboxesDir, boxCall>>
swarmVars == <<index, signalFiles, clock, idsUsed, emitted, swarmCall,
               sensed>>
graphVars == <<nodes, edges, engine, report>>

(***************************************************************************)
(* Bounds of the model                                                     *)
(***************************************************************************)
MaxTasks == 2          \* run_task calls per behaviour
MaxAppends == 1002     \* append_history calls per behaviour of SpecHistory
MaxShortHistory == 3   \* append_history calls per behaviour of SpecMem
NumThreads == 2        \* threads of SpecConc, one AgentMemory instance each
MaxConcCalls == 2      \* AgentMemory calls per thread in SpecConc
MaxValue == 2          \* largest serialized length of a stored value
TaskMemLimit == 8      \* max_memory_bytes configured for the agent (SpecTask)
MemLimit == 4          \* max_memory_bytes configured for the agent (SpecMem)
MaxSignals == 2        \* signals created per behaviour of SpecSwarm
MaxReinforce == 2      \* reinforcements of one signal
MaxClock == 800        \* the clock stops here, in seconds
TickSeconds == 800     \* seconds between two readings of the clock

None == ""

Last(s) == s[Len(s)]

Min(a, b) == IF a < b THEN a ELSE b

RECURSIVE SumOver(_, _)
SumOver(f, S) ==
    IF S = {} THEN 0
    ELSE LET x == CHOOSE y \in S : TRUE IN f[x] + SumOver(f, S \ {x})

(***************************************************************************)
(* agentd.py: error records, AgentConfig                                   *)
(***************************************************************************)
AgentErrorType ==
    {"capability_denied", "skill_not_allowed", "skill_missing",
     "invalid_path", "sandbox_violation", "execution_error", "memory_error",
     "network_violation", "unknown_error"}

\* AgentError(error_type, message, agent, required, details); the message is
\* not modelled, details only by the size_bytes entry of a memory_error.
AgentError(error_type, agent_name, required, size_bytes) ==
    [error_type |-> error_type, agent |-> agent_name,
     required |-> required, size_bytes |-> size_bytes]

\* Python None in a place that holds an AgentError or its dict
NoError == [error_type |-> None, agent |-> None, required |-> None,
            size_bytes |-> 0]

KNOWN_CAPABILITIES ==
    {"filesystem.read", "filesystem.write", "filesystem.exec",
     "filesystem.delete",
     "network.none", "network.local", "network.external",
     "exec.pkg", "exec.git", "exec.qemu", "exec.iso", "exec.apk",
     "exec.docker", "exec.shell", "exec.python", "exec.build",
     "exec.analyze", "exec.compress", "exec.custom",
     "memory.read", "memory.write", "memory.shared",
     "system.info", "system.process", "system.env"}

AgentConfig(name, capabilities, skills, max_memory_bytes, max_task_timeout) ==
    [name |-> name, capabilities |-> capabilities, skills |-> skills,
     max_memory_bytes |-> max_memory_bytes,
     max_task_timeout |-> max_task_timeout]

has_capability(agent, cap) == cap \in agent.capabilities

has_network_access(agent) ==
    \/ "network.local" \in agent.capabilities
    \/ "network.external" \in agent.capabilities

is_network_blocked(agent) == "network.none" \in agent.capabilities

(***************************************************************************)
(* agentd.py: AgentDaemon._check_network_access, check_network_access      *)
(***************************************************************************)
LocalhostNames == {"localhost", "127.0.0.1", "::1"}

Denied(err) == [allowed |-> FALSE, error |-> err]
Allowed == [allowed |-> TRUE, error |-> NoError]

_check_network_access(agent, target) ==
    IF is_network_blocked(agent)
    THEN Denied(AgentError("network_violation", agent.name,
                           "network.local or network.external", 0))
    ELSE IF ~has_network_access(agent)
    THEN Denied(AgentError("network_violation", agent.name,
                           "network.local or network.external", 0))
    ELSE IF target # None /\ target \in LocalhostNames
                /\ has_capability(agent, "network.local")
    THEN Allowed
    ELSE IF target # None /\ target \notin LocalhostNames
                /\ ~has_capability(agent, "network.external")
    THEN Denied(AgentError("network_violation", agent.name,
                           "network.external", 0))
    ELSE Allowed

\* the public wrapper; for an unknown agent the error is the plain string
\* "Agent not found" (found = FALSE), not an error record
check_network_access(agent_name, target) ==
    IF agent_name \notin DOMAIN agents
    THEN [called |-> TRUE, agent |-> agent_name, target |-> target,
          allowed |-> FALSE, error |-> NoError, found |-> FALSE]
    ELSE LET r == _check_network_access(agents[agent_name], target)
         IN [called |-> TRUE, agent |-> agent_name, target |-> target,
             allowed |-> r.allowed, error |-> r.error, found |-> TRUE]

NoNetCheck == [called |-> FALSE, agent |-> None, target |-> None,
               allowed |-> FALSE, error |-> NoError, found |-> FALSE]

(***************************************************************************)
(* executor.py: AgentExecutor                                              *)
(***************************************************************************)
\* BINARY_CAPABILITIES.get(name): the tag, or None for an unlisted binary
BINARY_CAPABILITIES(name) ==
    IF name \in {"pkg", "apt", "apt-get", "apt-cache", "dpkg", "dpkg-deb"}
    THEN "exec.pkg"
    ELSE IF name = "git" THEN "exec.git"
    ELSE IF name \in {"qemu-system-x86_64", "qemu-system-aarch64",
                      "qemu-system-arm", "qemu-img"}
    THEN "exec.qemu"
    ELSE IF name \in {"xorriso", "mkisofs", "isoinfo", "genisoimage"}
    THEN "exec.iso"
    ELSE IF name \in {"apktool", "jadx", "aapt", "aapt2", "zipalign",
                      "apksigner"}
    THEN "exec.apk"
    ELSE IF name \in {"docker", "podman"} THEN "exec.docker"
    ELSE IF name \in {"bash", "sh", "zsh"} THEN "exec.shell"
    ELSE IF name \in {"python", "python3", "pip", "pip3"} THEN "exec.python"
    ELSE IF name \in {"make", "cmake", "gradle", "gradlew", "ninja", "meson"}
    THEN "exec.build"
    ELSE IF name \in {"binwalk", "file", "strings", "hexdump", "objdump",
                      "readelf", "nm", "ldd"}
    THEN "exec.analyze"
    ELSE IF name \in {"tar", "gzip", "bzip2", "xz", "zip", "unzip", "7z"}
    THEN "exec.compress"
    ELSE None

NETWORK_COMMANDS ==
    {"curl", "wget", "ssh", "scp", "rsync", "nc", "netcat",
     "ping", "traceroute", "nmap", "telnet", "ftp", "sftp"}

\* os.path.basename of a path given as its "/"-separated components
basename(path) == IF path = <<>> THEN "" ELSE Last(path)

\* AgentExecutor.__init__
AgentExecutor(agent_name, capabilities) ==
    [agent_name |-> agent_name,
     capabilities |-> capabilities,
     network_none |-> "network.none" \in capabilities,
     network_local |-> "network.local" \in capabilities,
     network_external |-> "network.external" \in capabilities]

check_capability(self, capability) == capability \in self.capabilities

\* the table looked up with the whole path instead of its basename (mutation)
get_binary_capability_by_path(binary) ==
    IF Len(binary) = 1 THEN BINARY_CAPABILITIES(binary[1]) ELSE None

_get_binary_capability(binary) == BINARY_CAPABILITIES(basename(binary))

_check_network_command(command) ==
    IF command = <<>> THEN FALSE
    ELSE basename(command[1]) \in NETWORK_COMMANDS

\* network.none overridden by a granted network capability (mutation)
validate_command_no_sentinel(self, command) ==
    IF command = <<>> THEN "ExecutionError"
    ELSE IF /\ _check_network_command(command)
            /\ ~self.network_external /\ ~self.network_local
    THEN "CapabilityError"
    ELSE LET required_cap == _get_binary_capability(command[1])
         IN IF required_cap # None /\ ~check_capability(self, required_cap)
            THEN "CapabilityError"
            ELSE "ok"

\* "ok" when the function returns, else the exception it raises
_validate_command(self, command) ==
    IF command = <<>> THEN "ExecutionError"
    ELSE IF _check_network_command(command) /\ self.network_none
    THEN "CapabilityError"
    ELSE IF /\ _check_network_command(command)
            /\ ~self.network_external /\ ~self.network_local
    THEN "CapabilityError"
    ELSE LET required_cap == _get_binary_capability(command[1])
         IN IF required_cap # None /\ ~check_capability(self, required_cap)
            THEN "CapabilityError"
            ELSE "ok"

\* The environment variables the model follows, and an unset variable
EnvVars == {"http_proxy", "https_proxy", "HTTP_PROXY", "HTTPS_PROXY",
            "ftp_proxy", "FTP_PROXY", "all_proxy", "ALL_PROXY", "no_proxy"}
Unset == "<unset>"

NoEnv == [v \in EnvVars |-> Unset]

NoProc == [spawned |-> FALSE, command |-> <<>>, cwd |-> None,
           env |-> NoEnv, timeout |-> 0]

\* What the operating system does with a spawned process
ProcOutcomes == {"exit0", "exit1", "timeout", "notfound"}

\* AgentExecutor.run: the pair <<outcome, subprocess.run invocation>>.
\* env: the variables the caller overrides (to a proxy URL), mkdir_ok:
\* cwd.mkdir succeeds, proc: what the process does.
run(self, command, cwd, env, timeout, check, mkdir_ok, proc) ==
    LET v == _validate_command(self, command)
        run_cwd == IF cwd = None THEN "sandbox/work" ELSE cwd
        merged == [x \in EnvVars |->
                     IF x \in env THEN "http://proxy" ELSE osEnviron[x]]
        run_env == [x \in EnvVars |->
                     IF ~self.network_none THEN merged[x]
                     ELSE IF x \in {"http_proxy", "https_proxy",
                                    "HTTP_PROXY", "HTTPS_PROXY"} THEN ""
                     ELSE IF x = "no_proxy" THEN "*"
                     ELSE merged[x]]
        invocation ==
            [spawned |-> TRUE, command |-> command, cwd |-> run_cwd,
             env |-> run_env, timeout |-> timeout]
    IN IF v # "ok" THEN <<v, NoProc>>
       ELSE IF ~mkdir_ok THEN <<"OSError", NoProc>>
       ELSE IF proc \in {"timeout", "notfound"}
       THEN <<"ExecutionError", invocation>>
       ELSE IF check /\ proc = "exit1" THEN <<"ExecutionError", invocation>>
       ELSE <<"completed", invocation>>

\* shutil.which results for the interpreters: a path or None (<<>>)
WhichResults(name) == {<<>>, <<"usr", "bin", name>>}

\* AgentExecutor.run_shell / run_python, with the interpreter found by which
run_helper(self, cap, interp, script, cwd, env, timeout, mkdir_ok, proc) ==
    IF ~check_capability(self, cap) THEN <<"CapabilityError", NoProc>>
    ELSE IF interp = <<>> THEN <<"ExecutionError", NoProc>>
    ELSE run(self, <<interp, <<"-c">>, <<script>>>>, cwd, env, timeout,
             TRUE, mkdir_ok, proc)

(***************************************************************************)
(* Calls on the executor and the daemon's network check (SpecExec)         *)
(***************************************************************************)
ExecTags == {"network.none", "network.local", "network.external",
             "exec.pkg", "exec.shell", "exec.python"}

BinaryPaths == {<<"apt">>, <<"usr", "bin", "apt">>, <<"curl">>,
                <<"usr", "bin", "curl">>, <<"echo">>}
HostWords == {<<"localhost">>, <<"example.com">>}
Commands == {<<>>} \cup {<<b>> : b \in BinaryPaths}
                  \cup {<<b, h>> : b \in BinaryPaths, h \in HostWords}
Targets == {None, "localhost", "127.0.0.1", "::1", "example.com"}
Timeouts == {1, 300, 4000}
EnvOverrides == {{}, {"http_proxy"}}
Cwds == {None, "/tmp/x"}

NoExCall == [called |-> FALSE, op |-> None, command |-> <<>>, cwd |-> None,
             env |-> {}, timeout |-> 0, check |-> FALSE]

ExCall(op, command, cwd, env, timeout, check) ==
    [called |-> TRUE, op |-> op, command |-> command, cwd |-> cwd,
     env |-> env, timeout |-> timeout, check |-> check]

ExecIdle ==
    /\ exCall = NoExCall
    /\ exOutcome = None
    /\ exProc = NoProc
    /\ netCheck = NoNetCheck

\* The executor and the daemon are called by one caller, one call at a
\* time: a call starts when the previous one has returned
ExecReady == ~exCall.called /\ ~netCheck.called

ExecutorRun ==
    /\ ExecReady
    /\ \E command \in Commands, cwd \in Cwds, env \in EnvOverrides,
       timeout \in Timeouts, check \in BOOLEAN, mkdir_ok \in BOOLEAN,
       proc \in ProcOutcomes :
        LET r == run(executor, command, cwd, env, timeout, check, mkdir_ok,
                     proc)
        IN /\ exCall' = ExCall("run", command, cwd, env, timeout, check)
           /\ exOutcome' = r[1]
           /\ exProc' = r[2]
           /\ UNCHANGED <<agents, osEnviron, executor, netCheck, memFile,
                          taskVars, memVars,
                   concVars, boxVars, swarmVars,
                   graphVars, registry, capCheck, coord>>

ExecutorRunShell ==
    /\ ExecReady
    /\ \E interp \in WhichResults("bash"), cwd \in Cwds, env \in EnvOverrides,
       timeout \in Timeouts, mkdir_ok \in BOOLEAN, proc \in ProcOutcomes :
        LET r == run_helper(executor, "exec.shell", interp, "script", cwd,
                            env, timeout, mkdir_ok, proc)
        IN /\ exCall' = ExCall("run_shell", <<interp>>, cwd, env, timeout,
                               TRUE)
           /\ exOutcome' = r[1]
           /\ exProc' = r[2]
           /\ UNCHANGED <<agents, osEnviron, executor, netCheck, memFile,
                          taskVars, memVars,
                   concVars, boxVars, swarmVars,
                   graphVars, registry, capCheck, coord>>

ExecutorRunPython ==
    /\ ExecReady
    /\ \E interp \in WhichResults("python3"), cwd \in Cwds,
       env \in EnvOverrides, timeout \in Timeouts, mkdir_ok \in BOOLEAN,
       proc \in ProcOutcomes :
        LET r == run_helper(executor, "exec.python", interp, "script", cwd,
                            env, timeout, mkdir_ok, proc)
        IN /\ exCall' = ExCall("run_python", <<interp>>, cwd, env, timeout,
                               TRUE)
           /\ exOutcome' = r[1]
           /\ exProc' = r[2]
           /\ UNCHANGED <<agents, osEnviron, executor, netCheck, memFile,
                          taskVars, memVars,
                   concVars, boxVars, swarmVars,
                   graphVars, registry, capCheck, coord>>

CheckNetworkAccess ==
    /\ ExecReady
    /\ \E agent_name \in DOMAIN agents \cup {"ghost"}, target \in Targets :
        /\ netCheck' = check_network_access(agent_name, target)
        /\ UNCHANGED <<agents, osEnviron, executor, exCall, exOutcome,
                       exProc, memFile, taskVars, memVars,
                   concVars, boxVars, swarmVars,
                   graphVars, registry, capCheck, coord>>

\* The caller takes the result; the executor keeps no state between calls
ExecReturn ==
    /\ ~ExecReady
    /\ exCall' = NoExCall
    /\ exOutcome' = None
    /\ exProc' = NoProc
    /\ netCheck' = NoNetCheck
    /\ UNCHANGED <<agents, osEnviron, executor, memFile, taskVars, memVars,
                   concVars, boxVars, swarmVars,
                   graphVars, registry, capCheck, coord>>

(***************************************************************************)
(* memory.py: AgentMemory.  The document keeps `data` and `history`; the   *)
(* timestamps and agent_name fields are not followed.                      *)
(***************************************************************************)
HistoryLimit == 1000

\* A Python value handed to or returned by the store: its type and the
\* length of its JSON text
PyValue(type, size) == [type |-> type, size |-> size]

PyNone == PyValue("NoneType", 0)

\* A value as it stands in the file
JsonValue(type, size) == [type |-> type, size |-> size]

\* json.dump(..., default=str): the encoder writes list and tuple as an
\* array, str as a string, None as null, and what it does not know (a Path,
\* a datetime) as the string str() gives
json_dump(value) ==
    JsonValue(CASE value.type \in {"list", "tuple"} -> "array"
                [] value.type = "NoneType" -> "null"
                [] OTHER -> "string",
              value.size)

\* json.load: an array is read as a list, a string as a str, null as None
json_load(text) ==
    PyValue(CASE text.type = "array" -> "list"
              [] text.type = "null" -> "NoneType"
              [] OTHER -> "str",
            text.size)

NoData == [k \in {} |-> PyNone]

\* _init_memory's initial_data, which is also how _write_file leaves it on
\* disk; `valid` says that the file's content parses as JSON
InitialDocument ==
    [exists |-> TRUE, valid |-> TRUE, data |-> NoData, history |-> <<>>]

MissingFile ==
    [exists |-> FALSE, valid |-> FALSE, data |-> NoData, history |-> <<>>]

\* Length of json.dump(document), which is the file's st_size: one unit for
\* the envelope, the serialized length of every value, one per history entry
SerializedSize(file) ==
    IF ~file.exists THEN 0
    ELSE 1 + SumOver([k \in DOMAIN file.data |-> file.data[k].size],
                     DOMAIN file.data)
           + Len(file.history)

\* What an AgentMemory call leaves behind: the file, the value it returned,
\* and whether the calling thread is still waiting inside the call
MemReturn(blocked, file, value) ==
    [blocked |-> blocked, file |-> file, value |-> value]

\* _write_file: json.dump of the document over the file
_write_file(memory) ==
    [exists |-> TRUE, valid |-> TRUE,
     data |-> [k \in DOMAIN memory.data |-> json_dump(memory.data[k])],
     history |-> memory.history]

\* _init_memory
_init_memory == _write_file(InitialDocument)

\* _read_file: json.load under self._lock.  On FileNotFoundError or
\* JSONDecodeError the except clause runs, still inside `with self._lock`,
\* _init_memory -> _write_file -> `with self._lock`: threading.Lock is not
\* reentrant, so the thread waits for the lock it holds and the file stays
\* as it was.
_read_file(file) ==
    IF file.exists /\ file.valid
    THEN MemReturn(FALSE, file,
                   [file EXCEPT
                       !.data = [k \in DOMAIN @ |-> json_load(@[k])]])
    ELSE MemReturn(TRUE, file, InitialDocument)

\* AgentMemory.__init__: creates the file when it does not exist
AgentMemory(file) == IF file.exists THEN file ELSE _init_memory

\* memory["history"][-1000:] taken from the wrong end (mutation)
keep_first_entries(history) ==
    IF Len(history) > HistoryLimit THEN SubSeq(history, 1, HistoryLimit)
    ELSE history

\* if len(memory["history"]) > 1000: memory["history"][-1000:]
keep_last_entries(history) ==
    IF Len(history) > HistoryLimit
    THEN SubSeq(history, Len(history) - HistoryLimit + 1, Len(history))
    ELSE history

\* append_history
append_history(file, entry) ==
    LET r == _read_file(file)
        memory == [r.value EXCEPT
                      !.history = keep_last_entries(Append(@, entry))]
    IN IF r.blocked THEN MemReturn(TRUE, r.file, PyNone)
       ELSE MemReturn(FALSE, _write_file(memory), PyNone)

\* load: the data section
load(file) ==
    LET r == _read_file(file)
    IN MemReturn(r.blocked, r.file, r.value.data)

\* get; the value a blocked call would have returned is never seen
get(file, key, default) ==
    LET r == load(file)
    IN IF r.blocked THEN MemReturn(TRUE, r.file, default)
       ELSE MemReturn(FALSE, r.file,
                      IF key \in DOMAIN r.value THEN r.value[key]
                      ELSE default)

\* save
save(file, data) ==
    LET r == _read_file(file)
    IN IF r.blocked THEN MemReturn(TRUE, r.file, PyNone)
       ELSE MemReturn(FALSE, _write_file([r.value EXCEPT !.data = data]),
                      PyNone)

\* data = {key: value}: the other keys are dropped (mutation)
assign_alone(data, key, value) == [k \in {key} |-> value]

\* data[key] = value
assign(data, key, value) ==
    [k \in DOMAIN data \cup {key} |-> IF k = key THEN value ELSE data[k]]

\* set: load, assign, save
set(file, key, value) ==
    LET r == load(file)
    IN IF r.blocked THEN MemReturn(TRUE, r.file, PyNone)
       ELSE save(r.file, assign(r.value, key, value))

\* clear_history
clear_history(file) ==
    LET r == _read_file(file)
    IN IF r.blocked THEN MemReturn(TRUE, r.file, PyNone)
       ELSE MemReturn(FALSE, _write_file([r.value EXCEPT !.history = <<>>]),
                      PyNone)

\* clear_all: _init_memory, no read
clear_all(file) == MemReturn(FALSE, _init_memory, PyNone)

(***************************************************************************)
(* agentd.py: skill admission                                              *)
(***************************************************************************)
\* Content of <skills_dir>/<name>/: dir: the directory exists; manifest: a
\* skill.yml/.yaml/.json parses; provides / requires: the manifest's lists;
\* impl: skill.py exists and defines a Skill subclass.
SkillDirectory(dir, manifest, provides, requires, impl) ==
    [dir |-> dir, manifest |-> manifest, provides |-> provides,
     requires |-> requires, impl |-> impl]

NoSkillDirectory == SkillDirectory(FALSE, FALSE, {}, <<>>, FALSE)

SkillDir(skill_name) ==
    IF skill_name \in DOMAIN skillsDir THEN skillsDir[skill_name]
    ELSE NoSkillDirectory

\* skill_registry.py _validate_manifest: manifest.valid of a registered skill
_validate_manifest(skill) ==
    /\ skill.provides # {}
    /\ \A i \in 1..Len(skill.requires) :
           skill.requires[i] \in KNOWN_CAPABILITIES
    /\ \A i \in 1..Len(skill.requires) :
           skill.requires[i] # "network.external"
    /\ skill.impl

LogEntry(action, status) == [action |-> action, status |-> status]

Check(ok, error, log) == [ok |-> ok, error |-> error, log |-> log]

\* _check_capability, with the log line(s) it writes
_check_capability(agent, required) ==
    IF required \notin agent.capabilities
    THEN Check(FALSE,
               AgentError("capability_denied", agent.name, required, 0),
               <<LogEntry("capability_check", "denied")>>)
    ELSE Check(TRUE, NoError, <<>>)

\* _check_skill_capabilities: the first required tag the agent lacks decides
_check_skill_capabilities(agent, skill_name) ==
    LET skill == SkillDir(skill_name)
        missing == {i \in 1..Len(skill.requires) :
                        skill.requires[i] \notin agent.capabilities}
    IN IF ~skill.manifest \/ missing = {} THEN Check(TRUE, NoError, <<>>)
       ELSE LET first == CHOOSE i \in missing : \A j \in missing : i <= j
            IN _check_capability(agent, skill.requires[first])

\* the existence test made before the declaration test (mutation)
validate_skill_missing_first(agent, skill_name) ==
    IF ~SkillDir(skill_name).dir
    THEN Check(FALSE, AgentError("skill_missing", agent.name, None, 0),
               <<LogEntry("skill_validation", "missing")>>)
    ELSE IF skill_name \notin agent.skills
    THEN Check(FALSE, AgentError("skill_not_allowed", agent.name, None, 0),
               <<LogEntry("skill_validation", "denied")>>)
    ELSE LET c == _check_skill_capabilities(agent, skill_name)
         IN IF ~c.ok THEN c
            ELSE Check(TRUE, NoError,
                       <<LogEntry("skill_validation", "allowed")>>)

_validate_skill_for_agent(agent, skill_name) ==
    IF skill_name \notin agent.skills
    THEN Check(FALSE, AgentError("skill_not_allowed", agent.name, None, 0),
               <<LogEntry("skill_validation", "denied")>>)
    ELSE IF ~SkillDir(skill_name).dir
    THEN Check(FALSE, AgentError("skill_missing", agent.name, None, 0),
               <<LogEntry("skill_validation", "missing")>>)
    ELSE LET c == _check_skill_capabilities(agent, skill_name)
         IN IF ~c.ok THEN c
            ELSE Check(TRUE, NoError,
                       <<LogEntry("skill_validation", "allowed")>>)

\* _load_skill_for_agent: validates again, then SkillLoader.create_skill,
\* which returns None when there is no skill class
_load_skill_for_agent(agent, skill_name) ==
    LET c == _validate_skill_for_agent(agent, skill_name)
    IN IF ~c.ok THEN c
       ELSE IF ~SkillDir(skill_name).impl
       THEN Check(FALSE, AgentError("skill_missing", agent.name, None, 0),
                  c.log)
       ELSE Check(TRUE, NoError, c.log)

\* Memory size limit of an agent whose configuration sets none
MEMORY_SIZE_LIMIT == 1048576

\* _check_memory_size testing the module default, not the agent's limit
\* (mutation)
check_memory_size_default_limit(agent, file) ==
    IF ~file.exists THEN Check(TRUE, NoError, <<>>)
    ELSE IF SerializedSize(file) > MEMORY_SIZE_LIMIT
    THEN Check(FALSE, AgentError("memory_error", agent.name, None,
                                 SerializedSize(file)), <<>>)
    ELSE Check(TRUE, NoError, <<>>)

_check_memory_size(agent, file) ==
    IF ~file.exists THEN Check(TRUE, NoError, <<>>)
    ELSE IF SerializedSize(file) > agent.max_memory_bytes
    THEN Check(FALSE, AgentError("memory_error", agent.name, None,
                                 SerializedSize(file)), <<>>)
    ELSE Check(TRUE, NoError, <<>>)

(***************************************************************************)
(* agentd.py: run_task and _execute_task                                   *)
(***************************************************************************)
TaskStep(step_id, action, status, error) ==
    [step_id |-> step_id, action |-> action, status |-> status,
     error |-> error]

\* the dict _execute_task returns; error_str: "error" holds a plain string
ExecResult(success, error, error_str) ==
    [present |-> TRUE, success |-> success, error |-> error,
     error_str |-> error_str]

NoExecResult == [present |-> FALSE, success |-> FALSE, error |-> NoError,
                 error_str |-> FALSE]

\* TaskResult(...).to_dict()
TaskResult(status, agent_name, steps_, result, error) ==
    [returned |-> TRUE, status |-> status, agent |-> agent_name,
     steps |-> steps_, result |-> result, error |-> error]

NoTaskResult == [returned |-> FALSE, status |-> None, agent |-> None,
                 steps |-> <<>>, result |-> NoExecResult, error |-> NoError]

NoTask == [agent_name |-> None, task |-> <<>>, task_id |-> 0]

\* A task string is a sequence of tokens; "." and " " are tokens of their own
Range(seq) == {seq[i] : i \in 1..Len(seq)}

\* "".join of at most one token; longer pieces are no skill or function name
Join(tokens) ==
    IF tokens = <<>> THEN ""
    ELSE IF Len(tokens) = 1 THEN tokens[1]
    ELSE "<compound>"

is_skill_call(t) == "." \in Range(t) /\ " " \notin Range(t)

FirstDot(t) == CHOOSE i \in 1..Len(t) :
                   t[i] = "." /\ \A j \in 1..(i - 1) : t[j] # "."

\* task.split(".", 1)
skill_name_of(t) == Join(SubSeq(t, 1, FirstDot(t) - 1))
func_name_of(t) == Join(SubSeq(t, FirstDot(t) + 1, Len(t)))

\* The functions every skill implementation of the model offers
\* (Skill.get_functions)
get_functions == {"run"}

Outcome(raised_, result, log, events_) ==
    [raised |-> raised_, result |-> result, log |-> log, events |-> events_]

\* Skill.call behind _execute_task's skill.call(func_name, **args).
\* world.functions: get_functions returns or raises; world.fn: the skill
\* function returns or raises.
call(function_name, world, log, events_) ==
    IF world.functions = "raises"
    THEN Outcome(TRUE, NoExecResult, log, events_)
    ELSE IF function_name \notin get_functions
    THEN Outcome(FALSE, ExecResult(FALSE, NoError, TRUE), log, events_)
    ELSE IF world.fn = "returns"
    THEN Outcome(FALSE, ExecResult(TRUE, NoError, FALSE), log,
                 Append(events_, "invoke"))
    ELSE Outcome(FALSE, ExecResult(FALSE, NoError, TRUE), log,
                 Append(events_, "invoke"))

\* _execute_task.  world.load: the skill module imports or raises.
_execute_task(agent, t, world) ==
    IF ~is_skill_call(t)
    THEN Outcome(FALSE, ExecResult(TRUE, NoError, FALSE), <<>>, <<>>)
    ELSE
    LET skill_name == skill_name_of(t)
        func_name == func_name_of(t)
        v == _validate_skill_for_agent(agent, skill_name)
        l == _load_skill_for_agent(agent, skill_name)
    IN IF ~v.ok
       THEN Outcome(FALSE, ExecResult(FALSE, v.error, FALSE), v.log,
                    <<"validate">>)
       ELSE IF ~l.ok
       THEN Outcome(FALSE, ExecResult(FALSE, l.error, FALSE), v.log \o l.log,
                    <<"validate", "validate">>)
       ELSE IF world.load = "raises"
       THEN Outcome(TRUE, NoExecResult, v.log \o l.log,
                    <<"validate", "validate">>)
       ELSE IF func_name # ""
       THEN call(func_name, world,
                 v.log \o l.log \o
                     <<LogEntry("skill_call", "executing")>>,
                 <<"validate", "validate", "load">>)
       ELSE Outcome(FALSE, ExecResult(TRUE, NoError, FALSE), v.log \o l.log,
                    <<"validate", "validate", "load">>)

\* the scrub without the upper-case names (mutation)
enforce_offline_lower_case(environ) ==
    [x \in EnvVars |->
        IF x = "no_proxy" THEN "*"
        ELSE IF x \in {"http_proxy", "https_proxy", "ftp_proxy", "all_proxy"}
        THEN Unset
        ELSE environ[x]]

\* _enforce_offline_guarantee
_enforce_offline_guarantee(environ) ==
    [x \in EnvVars |-> IF x = "no_proxy" THEN "*" ELSE Unset]

RunningAgent == agents[task.agent_name]

\* run_task's `except Exception` handler; log and events_ are what the
\* failing step wrote before it raised
HandleException(log, events_) ==
    LET error == AgentError("execution_error", task.agent_name, None, 0)
    IN /\ logFile' = (logFile \o log) \o <<LogEntry("run_task", "failed")>>
       /\ taskResult' = TaskResult("error", task.agent_name, steps,
                                   NoExecResult, error)
       /\ events' = (events \o events_) \o <<"log_failed">>
       /\ pc' = "done"
       /\ UNCHANGED <<steps, raised>>

\* Inputs of the run_task model
Tasks == {<<"pkg", ".", "run">>, <<"pkg", ".", "nope">>, <<"pkg", ".">>,
          <<"say", " ", "hi", ".">>}
TaskTags == {"exec.pkg", "network.external", "custom.tag"}
RequiresLists == {<<>>, <<"exec.pkg">>, <<"network.external", "exec.pkg">>,
                  <<"exec.pkg", "custom.tag">>}
SkillDirectories ==
    {NoSkillDirectory}
    \cup {SkillDirectory(TRUE, FALSE, {}, <<>>, impl) : impl \in BOOLEAN}
    \cup {SkillDirectory(TRUE, TRUE, provides, requires, impl) :
            provides \in {{}, {"run"}}, requires \in RequiresLists,
            impl \in BOOLEAN}
Worlds == [load : {"ok", "raises"}, functions : {"ok", "raises"},
           fn : {"returns", "raises"}]

\* run_task up to the try block: agent lookup, start log line, proxy scrub.
\* The start line is written by _log_action before the try: json.dumps of
\* an entry that holds the caller's args, then open(log_file, "a").  When
\* either raises (`logged` is FALSE: args that json cannot serialize, a log
\* file that cannot be opened) the exception leaves run_task.  A log file
\* that took the start line takes the later lines, whose details are built
\* by run_task itself.
RunTaskStart ==
    /\ pc \in {"idle", "done"}
    /\ tasksRun < MaxTasks
    /\ \E agent_name \in DOMAIN agents \cup {"ghost"}, t \in Tasks,
          logged \in BOOLEAN :
        /\ tasksRun' = tasksRun + 1
        /\ task' = [agent_name |-> agent_name, task |-> t,
                    task_id |-> tasksRun + 1]
        /\ steps' = <<>>
        /\ execResult' = NoExecResult
        /\ IF agent_name \notin DOMAIN agents
           THEN /\ taskResult' =
                      TaskResult("error", agent_name, <<>>, NoExecResult,
                                 AgentError("unknown_error", agent_name,
                                            None, 0))
                /\ pc' = "done"
                /\ events' = <<>>
                /\ raised' = FALSE
                /\ UNCHANGED <<logFile, osEnviron>>
           ELSE IF ~logged
           THEN /\ raised' = TRUE
                /\ taskResult' = NoTaskResult
                /\ pc' = "done"
                /\ events' = <<>>
                /\ UNCHANGED <<logFile, osEnviron>>
           ELSE /\ raised' = FALSE
                /\ logFile' = Append(logFile, LogEntry("run_task", "started"))
                /\ osEnviron' = _enforce_offline_guarantee(osEnviron)
                /\ events' = <<"log_started", "offline">>
                /\ taskResult' = NoTaskResult
                /\ pc' = "load_memory"
    /\ UNCHANGED <<agents, execVars, skillsDir, memFile, memVars,
                   concVars, boxVars, swarmVars,
                   graphVars, registry, capCheck, coord>>

\* Step 2: AgentMemory(agent_name, memory_dir), then _check_memory_size.
\* The constructor only has work to do, and so can only raise, when the
\* memory file does not exist yet.
LoadMemory ==
    /\ pc = "load_memory"
    /\ \E opens \in BOOLEAN :
        /\ opens \/ ~memFile.exists
        /\ IF ~opens
           THEN HandleException(<<>>, <<>>) /\ UNCHANGED memFile
           ELSE LET memory == AgentMemory(memFile)
                    c == _check_memory_size(RunningAgent, memory)
                    failed == Append(steps,
                                     TaskStep(1, "load_memory", "failed",
                                              c.error.error_type))
                IN /\ memFile' = memory
                   /\ IF c.ok
                      THEN /\ steps' = Append(steps,
                                  TaskStep(1, "load_memory", "completed",
                                           None))
                           /\ events' = Append(events, "memory_open")
                           /\ pc' = "setup_sandbox"
                           /\ UNCHANGED <<logFile, taskResult, raised>>
                      ELSE /\ steps' = failed
                           /\ logFile' = Append(logFile,
                                             LogEntry("run_task", "failed"))
                           /\ taskResult' =
                                  TaskResult("error", task.agent_name, failed,
                                             NoExecResult, c.error)
                           /\ events' = events \o
                                            <<"memory_open", "log_failed">>
                           /\ pc' = "done"
                           /\ UNCHANGED raised
    /\ UNCHANGED <<agents, osEnviron, execVars, skillsDir, task, execResult,
                   tasksRun, memVars,
                   concVars, boxVars, swarmVars,
                   graphVars, registry, capCheck, coord>>

\* Step 3: AgentSandbox(agent_name, sandboxes_dir)
SetupSandbox ==
    /\ pc = "setup_sandbox"
    /\ \E created \in BOOLEAN :
        IF ~created THEN HandleException(<<>>, <<>>)
        ELSE /\ steps' = Append(steps, TaskStep(2, "setup_sandbox",
                                                "completed", None))
             /\ events' = Append(events, "sandbox")
             /\ pc' = "create_executor"
             /\ UNCHANGED <<logFile, taskResult, raised>>
    /\ UNCHANGED <<agents, osEnviron, execVars, skillsDir, memFile, task,
                   execResult, tasksRun, memVars,
                   concVars, boxVars, swarmVars,
                   graphVars, registry, capCheck, coord>>

\* Step 4: AgentExecutor(agent_name, agent.capabilities, ...)
CreateExecutor ==
    /\ pc = "create_executor"
    /\ \E constructed \in BOOLEAN :
        IF ~constructed THEN HandleException(<<>>, <<>>) /\ UNCHANGED executor
        ELSE /\ executor' = AgentExecutor(task.agent_name,
                                          RunningAgent.capabilities)
             /\ steps' = Append(steps, TaskStep(3, "create_executor",
                                                "completed", None))
             /\ events' = Append(events, "executor")
             /\ pc' = "execute_task"
             /\ UNCHANGED <<logFile, taskResult, raised>>
    /\ UNCHANGED <<agents, osEnviron, exCall, exOutcome, exProc, netCheck,
                   skillsDir, memFile, task, execResult, tasksRun, memVars,
                   concVars, boxVars, swarmVars,
                   graphVars, registry, capCheck, coord>>

\* Step 5: _execute_task and the execute_task step record
ExecuteTask ==
    /\ pc = "execute_task"
    /\ \E world \in Worlds :
        LET o == _execute_task(RunningAgent, task.task, world)
        IN IF o.raised
           THEN HandleException(o.log, o.events) /\ UNCHANGED execResult
           ELSE /\ execResult' = o.result
                /\ steps' = Append(steps,
                       TaskStep(4, "execute_task",
                                IF o.result.success THEN "completed"
                                ELSE "failed", None))
                /\ logFile' = logFile \o o.log
                /\ events' = events \o o.events
                /\ pc' = "update_memory"
                /\ UNCHANGED <<taskResult, raised>>
    /\ UNCHANGED <<agents, osEnviron, execVars, skillsDir, memFile, task,
                   tasksRun, memVars,
                   concVars, boxVars, swarmVars,
                   graphVars, registry, capCheck, coord>>

\* Step 6 and the return: memory.append_history, completion log line,
\* TaskResult.  append_history can raise (the open fails), return, or leave
\* the thread waiting inside _read_file; a waiting run_task stays at
\* pc = "blocked" and nothing it would do afterwards happens.
UpdateMemory ==
    /\ pc = "update_memory"
    /\ \E appended \in BOOLEAN :
        LET entry == [task_id |-> task.task_id,
                      success |-> execResult.success]
            r == append_history(memFile, entry)
            done == Append(steps, TaskStep(5, "update_memory",
                                           "completed", None))
        IN IF ~appended
           THEN HandleException(<<>>, <<>>) /\ UNCHANGED memFile
           ELSE IF r.blocked
           THEN /\ pc' = "blocked"
                /\ UNCHANGED <<memFile, steps, logFile, events, taskResult,
                               raised>>
           ELSE /\ memFile' = r.file
                /\ steps' = done
                /\ logFile' = Append(logFile,
                                     LogEntry("run_task", "completed"))
                /\ events' = events \o <<"append_history", "log_completed">>
                /\ taskResult' =
                       TaskResult(IF execResult.success THEN "success"
                                  ELSE "error",
                                  task.agent_name, done, execResult, NoError)
                /\ pc' = "done"
                /\ UNCHANGED raised
    /\ UNCHANGED <<agents, osEnviron, execVars, skillsDir, task, execResult,
                   tasksRun, memVars,
                   concVars, boxVars, swarmVars,
                   graphVars, registry, capCheck, coord>>

(***************************************************************************)
(* Specifications                                                          *)
(***************************************************************************)
\* max_task_timeout of an agent whose configuration does not set it
DefaultMaxTaskTimeout == 3600

TaskIdle ==
    /\ logFile = <<>>
    /\ pc = "idle"
    /\ task = NoTask
    /\ steps = <<>>
    /\ execResult = NoExecResult
    /\ taskResult = NoTaskResult
    /\ raised = FALSE
    /\ events = <<>>
    /\ tasksRun = 0

NoMemCall ==
    [op |-> None, key |-> None, arg |-> PyNone, returned |-> PyNone,
     blocked |-> FALSE]

MemIdle ==
    /\ memCall = NoMemCall
    /\ nAppended = 0

Threads == 1..NumThreads

\* A thread between calls.  op, key, arg: the call it is in; phase: which
\* _read_file of the call comes next; data: set's local `data`; memory: the
\* local `memory` about to be written; completed: the calls that returned
ThreadIdle ==
    [pc |-> "idle", op |-> None, key |-> None, arg |-> PyNone,
     phase |-> None, data |-> NoData, memory |-> InitialDocument,
     completed |-> <<>>]

\* Nobody holds LOCK_SH or LOCK_EX on the memory file
NoFileLock == [sh |-> {}, ex |-> {}]

ConcIdle ==
    /\ thread = [p \in Threads |-> ThreadIdle]
    /\ fileLock = NoFileLock

(***************************************************************************)
(* Sandbox boundaries: AgentDaemon._check_sandbox_boundary and             *)
(* check_sandbox_access (agentd.py), AgentSandbox (sandbox.py).            *)
(* A path is the sequence of its components below "/"; it may still hold   *)
(* ".." components until it is resolved.  The file system holds no         *)
(* symbolic links, so Path.resolve only normalises.                        *)
(***************************************************************************)
\* A component standing for a name with an embedded null byte
NUL == "\\0"

\* The characters of a component name, in chunks fine enough to tell which
\* of the names of the model is a string prefix of which
Chars(name) ==
    IF name = "build_agent" THEN <<"build", "_agent">> ELSE <<name>>

\* s is a prefix of the sequence t
IsPrefix(s, t) ==
    /\ Len(s) <= Len(t)
    /\ \A i \in 1..Len(s) : s[i] = t[i]

RECURSIVE normalise(_, _)
normalise(path, done) ==
    IF path = <<>> THEN done
    ELSE IF Head(path) = ".."
         THEN normalise(Tail(path),
                        IF done = <<>> THEN <<>>
                        ELSE SubSeq(done, 1, Len(done) - 1))
         ELSE normalise(Tail(path), Append(done, Head(path)))

\* Path.resolve(): [raised, path]; ValueError on an embedded null byte
resolve(path) ==
    IF \E i \in 1..Len(path) : path[i] = NUL
    THEN [raised |-> TRUE, path |-> <<>>]
    ELSE [raised |-> FALSE, path |-> normalise(path, <<>>)]

\* str(a).startswith(str(b)) for resolved paths a, b: a comparison of
\* characters, which does not stop at the end of b's last component
startswith(a, b) ==
    \/ b = <<>>
    \/ /\ Len(a) >= Len(b)
       /\ \A i \in 1..(Len(b) - 1) : a[i] = b[i]
       /\ IsPrefix(Chars(b[Len(b)]), Chars(a[Len(b)]))

\* PurePath.is_relative_to: component by component
is_relative_to(a, b) == IsPrefix(b, a)

termux_prefix == <<"data", "data", "com.termux", "files", "usr">>

\* (allowed, error type, entry written by _log_action) of a boundary check
BoundaryCheck(allowed, error, logged) ==
    [allowed |-> allowed, error |-> error, logged |-> logged]

\* The other loaded agents whose sandbox directory str(resolved) starts with
OtherSandboxes(agent, resolved) ==
    {n \in DOMAIN agents :
       /\ n # agent.name
       /\ startswith(resolved, sandboxesDir \o <<n>>)}

_check_sandbox_boundary(agent, path) ==
    LET r == resolve(path)
        resolved == r.path
        sandbox_resolved == sandboxesDir \o <<agent.name>>
    IN IF r.raised THEN BoundaryCheck(FALSE, "invalid_path", None)
       ELSE IF startswith(resolved, sandbox_resolved)
       THEN BoundaryCheck(TRUE, None, None)
       ELSE IF is_relative_to(resolved, termux_prefix)
       THEN IF has_capability(agent, "filesystem.write")
            THEN BoundaryCheck(TRUE, None, None)
            ELSE BoundaryCheck(FALSE, "capability_denied", None)
       ELSE IF OtherSandboxes(agent, resolved) # {}
       THEN BoundaryCheck(FALSE, "sandbox_violation", "sandbox_check")
       ELSE IF has_capability(agent, "filesystem.read")
       THEN BoundaryCheck(TRUE, None, None)
       ELSE BoundaryCheck(FALSE, "sandbox_violation", "sandbox_check")

\* The last call on the sandbox: a check_sandbox_access or an AgentSandbox
\* operation; `target` is the path the operation returned or touched
BoxCall(op, agent, path, allowed, error, logged, exc, target) ==
    [op |-> op, agent |-> agent, path |-> path, allowed |-> allowed,
     error |-> error, logged |-> logged, raised |-> exc,
     target |-> target]

NoBoxCall == BoxCall(None, None, <<>>, FALSE, None, None, FALSE, <<>>)

check_sandbox_access(agent_name, path) ==
    IF agent_name \notin DOMAIN agents
    THEN BoxCall("check_sandbox_access", agent_name, path, FALSE,
                 "Agent not found", None, FALSE, <<>>)
    ELSE LET c == _check_sandbox_boundary(agents[agent_name], path)
         IN BoxCall("check_sandbox_access", agent_name, path, c.allowed,
                    c.error, c.logged, FALSE, <<>>)

\* A str argument naming a file: None or "" is the empty relative name
Name(absolute, parts) == [absolute |-> absolute, parts |-> parts]

\* PurePath.__truediv__: an absolute right operand replaces the left one
truediv(base, name) ==
    IF name.absolute THEN name.parts ELSE base \o name.parts

SubDirs == {"tmp", "work", "output", "cache"}

sandbox_root(agent_name) == sandboxesDir \o <<agent_name>>

\* get_tmp_path, get_work_path, get_output_path, get_cache_path
get_path(agent_name, subdir, filename) ==
    IF filename.parts # <<>>
    THEN truediv(sandbox_root(agent_name) \o <<subdir>>, filename)
    ELSE sandbox_root(agent_name) \o <<subdir>>

create_task_dir(agent_name, task_id) ==
    truediv(sandbox_root(agent_name) \o <<"work">>, task_id)

\* write_file and read_file: [raised, target]; ValueError on another subdir
file_path(agent_name, subdir, filename) ==
    IF subdir \in SubDirs
    THEN [raised |-> FALSE,
          target |-> truediv(sandbox_root(agent_name) \o <<subdir>>,
                             filename)]
    ELSE [raised |-> TRUE, target |-> <<>>]

BoxAgents == {"build", "build_agent"}
BoxTags == {"filesystem.read", "filesystem.write"}

\* The default <PREFIX>/share/agents/sandboxes and a directory elsewhere
SandboxesDirs ==
    {termux_prefix \o <<"share", "agents", "sandboxes">>,
     <<"tmp", "agents", "sandboxes">>}

\* Paths a caller asks about
BoxPaths ==
    {<<"etc", "passwd">>, termux_prefix \o <<"bin", "sh">>, <<NUL>>}
    \cup {sandboxesDir \o <<n>> \o rest :
            n \in BoxAgents,
            rest \in {<<>>, <<"work", "secret.txt">>,
                      <<"tmp", "..", "..", "etc", "passwd">>}}
    \cup {sandboxesDir \o <<n, "..", m, "output">> :
            n \in BoxAgents, m \in BoxAgents}

\* File names and task ids a caller passes to an AgentSandbox
BoxNames ==
    {Name(FALSE, <<>>), Name(FALSE, <<"notes.txt">>),
     Name(FALSE, <<"sub", "notes.txt">>),
     Name(FALSE, <<"..", "..", "..", "escape.txt">>),
     Name(FALSE, <<"..", "sibling.txt">>),
     Name(TRUE, <<"etc", "passwd">>)}

CheckSandboxAccess ==
    /\ \E agent_name \in BoxAgents \cup {"ghost"}, path \in BoxPaths :
        boxCall' = check_sandbox_access(agent_name, path)
    /\ UNCHANGED <<agents, osEnviron, execVars, taskVars, memFile, memVars,
                   concVars, sandboxesDir, swarmVars,
                   graphVars, registry, capCheck, coord>>

GetPath ==
    /\ \E agent_name \in BoxAgents, subdir \in SubDirs,
          filename \in BoxNames :
        boxCall' = BoxCall("get_" \o subdir \o "_path", agent_name,
                           filename.parts, FALSE, None, None, FALSE,
                           get_path(agent_name, subdir, filename))
    /\ UNCHANGED <<agents, osEnviron, execVars, taskVars, memFile, memVars,
                   concVars, sandboxesDir, swarmVars,
                   graphVars, registry, capCheck, coord>>

CreateTaskDir ==
    /\ \E agent_name \in BoxAgents, task_id \in BoxNames :
        boxCall' = BoxCall("create_task_dir", agent_name, task_id.parts,
                           FALSE, None, None, FALSE,
                           create_task_dir(agent_name, task_id))
    /\ UNCHANGED <<agents, osEnviron, execVars, taskVars, memFile, memVars,
                   concVars, sandboxesDir, swarmVars,
                   graphVars, registry, capCheck, coord>>

WriteFile ==
    /\ \E agent_name \in BoxAgents, subdir \in SubDirs \cup {"etc"},
          filename \in BoxNames :
        LET f == file_path(agent_name, subdir, filename)
        IN boxCall' = BoxCall("write_file", agent_name, filename.parts,
                              FALSE, None, None, f.raised, f.target)
    /\ UNCHANGED <<agents, osEnviron, execVars, taskVars, memFile, memVars,
                   concVars, sandboxesDir, swarmVars,
                   graphVars, registry, capCheck, coord>>

ReadFile ==
    /\ \E agent_name \in BoxAgents, subdir \in SubDirs \cup {"etc"},
          filename \in BoxNames :
        LET f == file_path(agent_name, subdir, filename)
        IN boxCall' = BoxCall("read_file", agent_name, filename.parts,
                              FALSE, None, None, f.raised, f.target)
    /\ UNCHANGED <<agents, osEnviron, execVars, taskVars, memFile, memVars,
                   concVars, sandboxesDir, swarmVars,
                   graphVars, registry, capCheck, coord>>

BoxIdle ==
    /\ sandboxesDir = termux_prefix \o <<"share", "agents", "sandboxes">>
    /\ boxCall = NoBoxCall

(***************************************************************************)
(* The swarm board: Signal and SwarmCoordinator (swarm.py), SignalEmitter  *)
(* (signals.py).  A strength is kept in hundredths (1.0 is 100), times are *)
(* whole seconds, a signal id is the number of the uuid draw that made it, *)
(* so index.json lists its entries in increasing id.                       *)
(***************************************************************************)
FullStrength == 100
ReinforceAmount == 30
TtlExtension == 600
MaxTtl == 86400
decay_rate == 5
weak_threshold == 10

Max(a, b) == IF a > b THEN a ELSE b

NoSignalData == [k \in {} |-> 0]

\* dict.update
update(data, other) ==
    [k \in DOMAIN data \cup DOMAIN other |->
        IF k \in DOMAIN other THEN other[k] ELSE data[k]]

Signal(id, signal_type, source_agent, target, strength, data, now, ttl) ==
    [id |-> id, signal_type |-> signal_type, source_agent |-> source_agent,
     target |-> target, strength |-> strength, data |-> data,
     created_at |-> now, updated_at |-> now, ttl |-> ttl,
     reinforcement_count |-> 0]

NoSignal == Signal(0, None, None, None, 0, NoSignalData, 0, 0)

\* A signal that never expires (a defect for comparison)
never_expired(signal, now) == FALSE

is_expired(signal, now) == now > signal.created_at + signal.ttl

is_weak(signal, threshold) == signal.strength < threshold

decay(signal, rate, now) ==
    [signal EXCEPT !.strength = Max(0, @ - rate), !.updated_at = now]

reinforce(signal, now) ==
    [signal EXCEPT !.strength = Min(FullStrength, @ + ReinforceAmount),
                   !.reinforcement_count = @ + 1,
                   !.updated_at = now,
                   !.ttl = Min(@ + TtlExtension, MaxTtl)]

\* One entry of index["signals"]
IndexEntry(signal) ==
    [signal_type |-> signal.signal_type,
     source_agent |-> signal.source_agent, target |-> signal.target,
     created_at |-> signal.created_at]

\* index.json as SwarmCoordinator.__init__ and clear write it
EmptyIndex(now) == [signals |-> [i \in {} |-> 0], last_decay |-> now]

Triple(signal_type, source_agent, target) ==
    [signal_type |-> signal_type, source_agent |-> source_agent,
     target |-> target]

TripleOf(s) == Triple(s.signal_type, s.source_agent, s.target)

\* The first index entry of the triple, 0 if there is none
existing_id(triple) ==
    LET ids == {i \in DOMAIN index.signals :
                  TripleOf(index.signals[i]) = triple}
    IN IF ids = {} THEN 0
       ELSE CHOOSE i \in ids : \A j \in ids : i <= j

\* f with key k bound to v
Put(f, k, v) == [i \in DOMAIN f \cup {k} |-> IF i = k THEN v ELSE f[i]]

\* f without the keys of `gone`
Without(f, gone) == [i \in DOMAIN f \ gone |-> f[i]]

SwarmTypes == {"success", "claiming"}
SwarmAgents == {"a1"}
SwarmTargets == {"t1"}
Triples ==
    {Triple(ty, a, t) :
       ty \in SwarmTypes \cup {"failure", "optimized", "working"},
       a \in SwarmAgents, t \in SwarmTargets \cup {"t2"}}

\* Per triple: the emit calls since its signal was created, with the
\* strength and ttl of the first of them; n is 0 when there is no signal of
\* the triple or a decay ran since it was created
NoEmits == [n |-> 0, strength |-> 0, ttl |-> 0]

SwarmCall(op, triple, data, signal, created) ==
    [op |-> op, triple |-> triple, data |-> data, signal |-> signal,
     created |-> created]

NoSwarmCall ==
    SwarmCall(None, Triple(None, None, None), NoSignalData, NoSignal, FALSE)

\* The dict get_consensus returns; confidence in tenths, scores in hundredths
Consensus(sentiment, confidence, recommendation, count, positive, negative) ==
    [sentiment |-> sentiment, confidence |-> confidence,
     recommendation |-> recommendation, signals_count |-> count,
     positive_score |-> positive, negative_score |-> negative]

NoConsensus == Consensus(None, 0, None, 0, 0, 0)

\* The last sense or get_consensus call, its arguments and what it returned
Query(op, signal_types, target, min_strength, limit, signals, consensus) ==
    [op |-> op, signal_types |-> signal_types, target |-> target,
     min_strength |-> min_strength, limit |-> limit, signals |-> signals,
     consensus |-> consensus]

NoQuery == Query(None, {}, None, 0, 0, <<>>, NoConsensus)

\* SwarmCoordinator.emit
emit(signal_type, source_agent, target, data, strength, ttl) ==
    LET triple == Triple(signal_type, source_agent, target)
        id == existing_id(triple)
    IN IF id # 0 /\ id \in DOMAIN signalFiles
       THEN LET r == reinforce(signalFiles[id], clock)
                signal == IF data # NoSignalData
                          THEN [r EXCEPT !.data = update(@, data)]
                          ELSE r
            IN /\ signalFiles' = [signalFiles EXCEPT ![id] = signal]
               /\ emitted' = [emitted EXCEPT ![triple] =
                                IF @.n = 0 THEN @
                                ELSE [@ EXCEPT !.n = @ + 1]]
               /\ swarmCall' = SwarmCall("emit", triple, data, signal, FALSE)
               /\ UNCHANGED <<index, idsUsed>>
       ELSE /\ idsUsed < MaxSignals
            /\ LET signal == Signal(idsUsed + 1, signal_type, source_agent,
                                    target, strength, data, clock, ttl)
               IN /\ signalFiles' = Put(signalFiles, signal.id, signal)
                  /\ index' = [index EXCEPT !.signals =
                                 Put(@, signal.id, IndexEntry(signal))]
                  /\ emitted' = [emitted EXCEPT ![triple] =
                                   [n |-> 1, strength |-> strength,
                                    ttl |-> ttl]]
                  /\ swarmCall' =
                         SwarmCall("emit", triple, data, signal, TRUE)
            /\ idsUsed' = idsUsed + 1

\* How often the signal an emit of `triple` would reinforce has been
\* reinforced
Reinforcements(triple) ==
    IF existing_id(triple) \in DOMAIN signalFiles
    THEN signalFiles[existing_id(triple)].reinforcement_count
    ELSE 0

EmitStrengths == {5, 50, 150}
EmitTtls == {300, 86000}
EmitData ==
    {NoSignalData, [k \in {"a"} |-> 1],
     [k \in {"a", "b"} |-> IF k = "a" THEN 2 ELSE 1]}

Emit ==
    /\ \E source_agent \in SwarmAgents, target \in SwarmTargets,
          data \in EmitData, strength \in EmitStrengths, ttl \in EmitTtls :
        /\ Reinforcements(Triple("success", source_agent, target))
               < MaxReinforce
        /\ emit("success", source_agent, target, data, strength, ttl)
    /\ UNCHANGED <<agents, osEnviron, execVars, taskVars, memFile, memVars,
                   concVars, boxVars, clock,
                   graphVars, registry, capCheck, coord>>
    /\ sensed' = NoQuery

\* SignalEmitter.claim_task
Durations == {0, 60}

ClaimTask ==
    /\ \E agent_name \in SwarmAgents, target \in SwarmTargets,
          estimated_duration \in Durations :
        /\ Reinforcements(Triple("claiming", agent_name, target))
               < MaxReinforce
        /\ emit("claiming", agent_name, target,
                [k \in {"estimated_duration"} |-> estimated_duration],
                FullStrength, estimated_duration * 2)
    /\ UNCHANGED <<agents, osEnviron, execVars, taskVars, memFile, memVars,
                   concVars, boxVars, clock,
                   graphVars, registry, capCheck, coord>>
    /\ sensed' = NoQuery

\* The dict decay_all returns
DecayCounts(decayed, removed) ==
    [k \in {"decayed", "removed"} |->
        IF k = "decayed" THEN decayed ELSE removed]

\* SwarmCoordinator.decay_all
decay_all ==
    /\ LET ids == DOMAIN index.signals
           missing == ids \ DOMAIN signalFiles
           dropped == {i \in ids \cap DOMAIN signalFiles :
                         \/ is_expired(signalFiles[i], clock)
                         \/ is_weak(signalFiles[i], weak_threshold)}
           removed == missing \cup dropped
       IN /\ signalFiles' =
                 [i \in DOMAIN signalFiles \ dropped |->
                    IF i \in ids
                    THEN decay(signalFiles[i], decay_rate, clock)
                    ELSE signalFiles[i]]
          /\ index' = [signals |-> Without(index.signals, removed),
                       last_decay |-> clock]
          /\ swarmCall' =
                 SwarmCall("decay_all", Triple(None, None, None),
                           DecayCounts(Cardinality(ids \ removed),
                                       Cardinality(removed)),
                           NoSignal, FALSE)
    /\ emitted' = [tr \in Triples |-> NoEmits]

\* A decay_all call, at most one per reading of the clock
DecayAll ==
    /\ index.last_decay < clock
    /\ decay_all
    /\ UNCHANGED <<agents, osEnviron, execVars, taskVars, memFile, memVars,
                   concVars, boxVars, clock, idsUsed,
                   graphVars, registry, capCheck, coord>>
    /\ sensed' = NoQuery

\* SwarmCoordinator.clear
Clear ==
    /\ signalFiles' = [i \in {} |-> NoSignal]
    /\ index' = EmptyIndex(clock)
    /\ emitted' = [tr \in Triples |-> NoEmits]
    /\ swarmCall' = SwarmCall("clear", Triple(None, None, None),
                              NoSignalData, NoSignal, FALSE)
    /\ UNCHANGED <<agents, osEnviron, execVars, taskVars, memFile, memVars,
                   concVars, boxVars, clock, idsUsed,
                   graphVars, registry, capCheck, coord>>
    /\ sensed' = NoQuery

\* Time passes between two calls
Tick ==
    /\ clock < MaxClock
    /\ clock' = clock + TickSeconds
    /\ UNCHANGED <<agents, osEnviron, execVars, taskVars, memFile, memVars,
                   concVars, boxVars, index, signalFiles, idsUsed, emitted,
                   swarmCall, graphVars, registry, capCheck, coord>>
    /\ sensed' = NoQuery

\* SwarmCoordinator.maybe_decay
decay_interval == 300

MaybeDecay ==
    /\ IF clock - index.last_decay > decay_interval
       THEN decay_all
       ELSE /\ swarmCall' = SwarmCall("maybe_decay", Triple(None, None, None),
                                      NoSignalData, NoSignal, FALSE)
            /\ UNCHANGED <<index, signalFiles, emitted>>
    /\ UNCHANGED <<agents, osEnviron, execVars, taskVars, memFile, memVars,
                   concVars, boxVars, clock, idsUsed,
                   graphVars, registry, capCheck, coord>>
    /\ sensed' = NoQuery

\* The signals of `ids`, strongest first; list.sort is stable, so signals of
\* equal strength stay in the order of the index
RECURSIVE strongest_first(_)
strongest_first(ids) ==
    IF ids = {} THEN <<>>
    ELSE LET first ==
                 CHOOSE i \in ids : \A j \in ids :
                     \/ signalFiles[i].strength > signalFiles[j].strength
                     \/ /\ signalFiles[i].strength = signalFiles[j].strength
                        /\ i <= j
         IN <<signalFiles[first]>> \o strongest_first(ids \ {first})

\* SwarmCoordinator.sense; signal_types {} and target None mean no filter
sense(signal_types, target, min_strength, limit) ==
    LET found ==
            {i \in DOMAIN index.signals \cap DOMAIN signalFiles :
               /\ ~is_expired(signalFiles[i], clock)
               /\ ~(signalFiles[i].strength < min_strength)
               /\ (signal_types # {} =>
                       signalFiles[i].signal_type \in signal_types)
               /\ (target # None => signalFiles[i].target = target)}
        signals == strongest_first(found)
    IN SubSeq(signals, 1, Min(limit, Len(signals)))

DefaultLimit == 50

\* The positive types without optimized (a defect for comparison)
positive_types_without_optimized == {"success", "resource", "path_clear"}

positive_types == {"success", "resource", "path_clear", "optimized"}
negative_types == {"failure", "blocked", "danger", "deprecated"}

\* The sum of the strengths of the signals of a list whose type is in `types`
RECURSIVE score(_, _)
score(signals, types) ==
    IF signals = <<>> THEN 0
    ELSE (IF Head(signals).signal_type \in types
          THEN Head(signals).strength ELSE 0)
         + score(Tail(signals), types)

\* SwarmCoordinator.get_consensus, through sense_for_target
get_consensus(target) ==
    LET signals == sense({}, target, 0, DefaultLimit)
        positive_score == score(signals, positive_types)
        negative_score == score(signals, negative_types)
        total_signals == Len(signals)
        net_score == positive_score - negative_score
        confidence == Min(10, total_signals)
    IN IF total_signals = 0
       THEN Consensus("unknown", 0, "explore", 0, 0, 0)
       ELSE IF net_score > 50
       THEN Consensus("positive", confidence, "proceed", total_signals,
                      positive_score, negative_score)
       ELSE IF net_score < -50
       THEN Consensus("negative", confidence, "avoid", total_signals,
                      positive_score, negative_score)
       ELSE Consensus("neutral", confidence, "caution", total_signals,
                      positive_score, negative_score)

SenseTargets == {"t1", "t2"}

\* The (type, target) pairs emitted: a positive, a negative and a neutral
\* type, the type the code and the specification count differently, and a
\* signal of another target
SenseSignals ==
    {<<"success", "t1">>, <<"failure", "t1">>, <<"optimized", "t1">>,
     <<"working", "t1">>, <<"success", "t2">>}
SenseStrengths == {FullStrength}
SenseTtls == {100}
TypeFilters == {{}, {"success", "optimized"}}
TargetFilters == {None, "t1"}
StrengthFilters == {0, FullStrength}
Limits == {1, DefaultLimit}

\* An emit call with the arguments that matter to sense
EmitSignal ==
    /\ \E st \in SenseSignals, source_agent \in SwarmAgents,
          strength \in SenseStrengths, ttl \in SenseTtls :
        /\ Reinforcements(Triple(st[1], source_agent, st[2])) < MaxReinforce
        /\ emit(st[1], source_agent, st[2], NoSignalData, strength, ttl)
    /\ UNCHANGED <<agents, osEnviron, execVars, taskVars, memFile, memVars,
                   concVars, boxVars, clock,
                   graphVars, registry, capCheck, coord>>
    /\ sensed' = NoQuery

Sense ==
    /\ \E signal_types \in TypeFilters, target \in TargetFilters,
          min_strength \in StrengthFilters, limit \in Limits :
        sensed' = Query("sense", signal_types, target, min_strength, limit,
                        sense(signal_types, target, min_strength, limit),
                        NoConsensus)
    /\ UNCHANGED <<agents, osEnviron, execVars, taskVars, memFile, memVars,
                   concVars, boxVars, index, signalFiles, clock, idsUsed,
                   emitted, swarmCall, graphVars, registry, capCheck,
                   coord>>

GetConsensus ==
    /\ \E target \in SenseTargets \cup {None} :
        sensed' = Query("get_consensus", {}, target, 0, DefaultLimit, <<>>,
                        get_consensus(target))
    /\ UNCHANGED <<agents, osEnviron, execVars, taskVars, memFile, memVars,
                   concVars, boxVars, index, signalFiles, clock, idsUsed,
                   emitted, swarmCall, graphVars, registry, capCheck,
                   coord>>

SwarmIdle ==
    /\ index = EmptyIndex(0)
    /\ signalFiles = [i \in {} |-> NoSignal]
    /\ clock = 0
    /\ idsUsed = 0
    /\ emitted = [tr \in Triples |-> NoEmits]
    /\ swarmCall = NoSwarmCall
    /\ sensed = NoQuery

(***************************************************************************)
(* agents/orchestrator/graph_engine.py: the task graph                     *)
(*                                                                         *)
(* self.nodes is a dict: a sequence of nodes in insertion order, a node    *)
(* added again under a known id takes the place of the old one.            *)
(* self.edges is a list read only by membership: the set of its pairs.     *)
(* A task result is represented by its "status" entry.  The callers build  *)
(* the graph with add_node and then execute it (autonomous.py 302-312).    *)
(***************************************************************************)
MaxAddNodes == 3       \* add_node calls per behaviour
MaxExecutes == 2       \* execute calls per behaviour

GraphNodeIds == {"A", "B", "C"}
TaskOutcomes == {"success", "error", "raise"}

Node(id, dependencies) ==
    [id |-> id, dependencies |-> dependencies, status |-> "pending",
     result |-> None, error |-> None]

NodeIds == {nodes[i].id : i \in 1..Len(nodes)}

node_of(node_id) ==
    nodes[CHOOSE i \in 1..Len(nodes) : nodes[i].id = node_id]

add_node(node_id, depends_on) ==
    /\ nodes' = IF node_id \in NodeIds
                THEN [i \in 1..Len(nodes) |->
                        IF nodes[i].id = node_id
                        THEN Node(node_id, depends_on) ELSE nodes[i]]
                ELSE Append(nodes, Node(node_id, depends_on))
    /\ edges' = edges \cup {<<dep, node_id>> : dep \in depends_on}

RECURSIVE dfs(_, _, _)
RECURSIVE dfs_edges(_, _, _, _)
\* the loop of dfs over the edges leaving node_id; targets: those not yet
\* looked at (the answer does not depend on the order)
dfs_edges(node_id, targets, visited, rec_stack) ==
    IF targets = {}
    THEN [cycle |-> FALSE, visited |-> visited]
    ELSE LET target == CHOOSE t \in targets : TRUE
             rest == targets \ {target}
         IN  IF target \notin visited
             THEN LET below == dfs(target, visited, rec_stack)
                  IN  IF below.cycle
                      THEN below
                      ELSE dfs_edges(node_id, rest, below.visited, rec_stack)
             ELSE IF target \in rec_stack
             THEN [cycle |-> TRUE, visited |-> visited]
             ELSE dfs_edges(node_id, rest, visited, rec_stack)

dfs(node_id, visited, rec_stack) ==
    dfs_edges(node_id, {e[2] : e \in {e \in edges : e[1] = node_id}},
              visited \cup {node_id}, rec_stack \cup {node_id})

RECURSIVE has_cycle_from(_, _)
\* the loop of _has_cycle over self.nodes, from position i on
has_cycle_from(i, visited) ==
    IF i > Len(nodes)
    THEN FALSE
    ELSE IF nodes[i].id \in visited
    THEN has_cycle_from(i + 1, visited)
    ELSE LET found == dfs(nodes[i].id, visited, {})
         IN  found.cycle \/ has_cycle_from(i + 1, found.visited)

_has_cycle == has_cycle_from(1, {})

\* issues: the missing dependencies as (node, dependency), and the cycle
validate ==
    LET missing == {nd \in NodeIds \X GraphNodeIds :
                       /\ nd[2] \in node_of(nd[1]).dependencies
                       /\ nd[2] \notin NodeIds}
        cycle == _has_cycle
    IN  [valid |-> missing = {} /\ ~cycle, missing |-> missing,
         cycle |-> cycle]

deps_ignored(node) == TRUE

deps_satisfied(node) ==
    \A dep \in node.dependencies : node_of(dep).status = "success"

\* Readiness that forgets the status (a defect for comparison)
ready_whatever_status(node) == deps_satisfied(node)

is_ready(node) == node.status = "pending" /\ deps_satisfied(node)

get_ready_nodes == SelectSeq(nodes, is_ready)

Report(op, valid, missing, cycle, status, error, executed, pending, results) ==
    [op |-> op, valid |-> valid, missing |-> missing, cycle |-> cycle,
     status |-> status, error |-> error, executed |-> executed,
     pending |-> pending, results |-> results]

NoReport == Report(None, FALSE, {}, FALSE, None, None, <<>>, <<>>, {})

Ids(seq) == [i \in 1..Len(seq) |-> seq[i].id]

is_pending(node) == node.status = "pending"

has_result(node) == node.result # None

\* the dict execute returns once no node is ready
execute_report(executed) ==
    LET pending == Ids(SelectSeq(nodes, is_pending))
        with == SelectSeq(nodes, has_result)
    IN  Report("execute", TRUE, {}, FALSE,
               IF pending = <<>> THEN "success" ELSE "partial", None,
               executed, pending,
               {<<with[i].id, with[i].result>> : i \in 1..Len(with)})

status_always_success(outcome) == "success"

\* the node status execute sets after the task returned or raised
status_after(outcome) == IF outcome = "success" THEN "success" ELSE "failed"

\* engine: pc of execute, its ready list and executed list; adds, calls:
\* add_node and execute calls so far; ran: every task run with its outcome;
\* since: length of ran when the current execute began
Engine(enginePc, ready, executed, adds, calls, ran, since) ==
    [pc |-> enginePc, ready |-> ready, executed |-> executed, adds |-> adds,
     calls |-> calls, ran |-> ran, since |-> since]

AddNode ==
    /\ engine.pc = "idle"
    /\ engine.calls = 0
    /\ engine.adds < MaxAddNodes
    /\ \E node_id \in GraphNodeIds, depends_on \in SUBSET GraphNodeIds :
        add_node(node_id, depends_on)
    /\ engine' = [engine EXCEPT !.adds = @ + 1]
    /\ report' = NoReport
    /\ UNCHANGED <<agents, osEnviron, execVars, taskVars, memFile, memVars,
                   concVars, boxVars, swarmVars, registry, capCheck,
                   coord>>

Validate ==
    /\ engine.pc = "idle"
    /\ LET v == validate
       IN  report' = Report("validate", v.valid, v.missing, v.cycle, None,
                            None, <<>>, <<>>, {})
    /\ UNCHANGED <<agents, osEnviron, execVars, taskVars, memFile, memVars,
                   concVars, boxVars, swarmVars, nodes, edges, engine,
                   registry, capCheck, coord>>

\* execute up to the loop: validation
Execute ==
    /\ engine.pc = "idle"
    /\ engine.calls < MaxExecutes
    /\ LET v == validate
       IN  IF v.valid
           THEN /\ engine' = [engine EXCEPT !.pc = "loop", !.ready = <<>>,
                                            !.executed = <<>>,
                                            !.calls = @ + 1,
                                            !.since = Len(engine.ran)]
                /\ report' = NoReport
           ELSE /\ engine' = [engine EXCEPT !.calls = @ + 1,
                                            !.since = Len(engine.ran)]
                /\ report' = Report("execute", FALSE, v.missing, v.cycle,
                                    "error", "invalid_graph", <<>>, <<>>, {})
    /\ UNCHANGED <<agents, osEnviron, execVars, taskVars, memFile, memVars,
                   concVars, boxVars, swarmVars, nodes, edges,
                   registry, capCheck, coord>>

\* the head of the while loop: the next wave, or the return
NextWave ==
    /\ engine.pc = "loop"
    /\ LET ready == get_ready_nodes
       IN  IF ready = <<>>
           THEN /\ engine' = [engine EXCEPT !.pc = "idle"]
                /\ report' = execute_report(engine.executed)
           ELSE /\ engine' = [engine EXCEPT !.pc = "wave",
                                            !.ready = Ids(ready)]
                /\ UNCHANGED report
    /\ UNCHANGED <<agents, osEnviron, execVars, taskVars, memFile, memVars,
                   concVars, boxVars, swarmVars, nodes, edges,
                   registry, capCheck, coord>>

SetNode(node_id, node) ==
    [i \in 1..Len(nodes) |-> IF nodes[i].id = node_id THEN node ELSE nodes[i]]

\* node.status = RUNNING, then daemon.run_task is entered
StartNode ==
    /\ engine.pc = "wave"
    /\ LET node_id == Head(engine.ready)
       IN  nodes' = SetNode(node_id,
                            [node_of(node_id) EXCEPT !.status = "running"])
    /\ engine' = [engine EXCEPT !.pc = "task"]
    /\ UNCHANGED <<agents, osEnviron, execVars, taskVars, memFile, memVars,
                   concVars, boxVars, swarmVars, edges, report,
                   registry, capCheck, coord>>

\* daemon.run_task returns a result or raises, the node is marked
RunTask ==
    /\ engine.pc = "task"
    /\ \E outcome \in TaskOutcomes :
        LET node_id == Head(engine.ready)
            node == node_of(node_id)
        IN  /\ nodes' = SetNode(node_id,
                   IF outcome = "raise"
                   THEN [node EXCEPT !.error = "boom",
                                     !.status = status_after(outcome)]
                   ELSE [node EXCEPT !.result = outcome,
                                     !.status = status_after(outcome)])
            /\ engine' = [engine EXCEPT
                   !.pc = IF Len(engine.ready) = 1 THEN "loop" ELSE "wave",
                   !.ready = Tail(@),
                   !.executed = Append(@, node_id),
                   !.ran = Append(@, <<node_id, outcome>>)]
    /\ UNCHANGED <<agents, osEnviron, execVars, taskVars, memFile, memVars,
                   concVars, boxVars, swarmVars, edges, report,
                   registry, capCheck, coord>>

GraphIdle ==
    /\ nodes = <<>>
    /\ edges = {}
    /\ engine = Engine("idle", <<>>, <<>>, 0, 0, <<>>, 0)
    /\ report = NoReport

(***************************************************************************)
(* agents/core/registry/skill_registry.py: discovery of the skills         *)
(*                                                                         *)
(* An item of the skills directory: its name, whether it is a directory,   *)
(* its manifest file ("none", "broken": does not parse to a mapping,       *)
(* "ok"), the parsed mapping and whether skill.py exists beside it.        *)
(* Missing, MissingList: the key is not in the mapping; Null: JSON null or *)
(* an empty YAML value.  An error message is the pair of its text and its  *)
(* subject.                                                                *)
(***************************************************************************)
MaxSkillDirs == 2      \* items in the skills directory

Missing == "<missing>"
\* a list value that is absent or null: a one-element list of its marker
MissingList == <<"<missing>">>
Null == <<"<null>">>

VALID_CAPABILITIES == KNOWN_CAPABILITIES

ManifestData(name, provides, requires_capabilities) ==
    [name |-> name, provides |-> provides,
     requires_capabilities |-> requires_capabilities]

NoManifestData == ManifestData(Missing, MissingList, MissingList)

Item(name, is_dir, manifest, data, impl) ==
    [name |-> name, is_dir |-> is_dir, manifest |-> manifest, data |-> data,
     impl |-> impl]

SkillManifest(name, provides, requires_capabilities, impl, valid, errors) ==
    [name |-> name, provides |-> provides,
     requires_capabilities |-> requires_capabilities, impl |-> impl,
     valid |-> valid, validation_errors |-> errors]

\* SkillManifest.from_dict; impl stands for path: skill.py beside it
from_dict(data, impl) ==
    SkillManifest(IF data.name = Missing THEN "unnamed" ELSE data.name,
                  IF data.provides = MissingList THEN <<>> ELSE data.provides,
                  IF data.requires_capabilities = MissingList THEN <<>>
                  ELSE data.requires_capabilities,
                  impl, TRUE, <<>>)

is_unknown(cap) == cap \notin VALID_CAPABILITIES

UnknownCapability(seq) == [i \in 1..Len(seq) |-> <<"Unknown capability", seq[i]>>]

\* the errors without the test for skill.py (mutation)
manifest_errors_without_impl(manifest) ==
    (IF manifest.name = "" THEN <<<<"Missing required field", "name">>>>
     ELSE <<>>)
    \o (IF manifest.provides = <<>>
        THEN <<<<"Missing required field", "provides">>>> ELSE <<>>)
    \o UnknownCapability(SelectSeq(manifest.requires_capabilities,
                                   is_unknown))
    \o (IF "network.external" \in Range(manifest.requires_capabilities)
        THEN <<<<"Skills cannot require", "network.external">>>> ELSE <<>>)

\* the list `errors` of _validate_manifest, requires_capabilities a list
manifest_errors(manifest) ==
    (IF manifest.name = "" THEN <<<<"Missing required field", "name">>>>
     ELSE <<>>)
    \o (IF manifest.provides = <<>>
        THEN <<<<"Missing required field", "provides">>>> ELSE <<>>)
    \o UnknownCapability(SelectSeq(manifest.requires_capabilities,
                                   is_unknown))
    \o (IF "network.external" \in Range(manifest.requires_capabilities)
        THEN <<<<"Skills cannot require", "network.external">>>> ELSE <<>>)
    \o (IF ~manifest.impl THEN <<<<"Missing implementation file", "skill.py">>>>
        ELSE <<>>)

\* _validate_manifest raises TypeError at `for cap in None`
validate_raises(manifest) == manifest.requires_capabilities = Null

\* _validate_manifest where it returns: the manifest it has updated
validate_manifest(manifest) ==
    LET errors == manifest_errors(manifest)
    IN  [manifest EXCEPT !.validation_errors = errors,
                         !.valid = Len(errors) = 0]

Registry(skills_dir, skills, discovery_errors, discovered, exc) ==
    [skills_dir |-> skills_dir, skills |-> skills,
     discovery_errors |-> discovery_errors, discovered |-> discovered,
     raised |-> exc]

NoSkills == [n \in {} |-> {}]

is_hidden(name) == name \in {"_cache", ".git"}

RECURSIVE scan(_, _)
\* the loop of discover over skills_dir.iterdir(), items: those to come
scan(items, self) ==
    IF items = <<>>
    THEN self
    ELSE LET item == Head(items)
             manifest == from_dict(item.data, item.impl)
         IN  IF ~item.is_dir \/ is_hidden(item.name)
             THEN scan(Tail(items), self)
             ELSE IF item.manifest = "none"
             THEN scan(Tail(items),
                       [self EXCEPT !.discovery_errors =
                           Append(@, <<item.name, "No manifest file found">>)])
             ELSE IF item.manifest = "broken"
             THEN scan(Tail(items),
                       [self EXCEPT !.discovery_errors =
                           Append(@, <<item.name, "Failed to parse manifest">>)])
             ELSE IF validate_raises(manifest)
             THEN [self EXCEPT !.raised = TRUE]
             ELSE scan(Tail(items),
                       [self EXCEPT !.skills =
                           [n \in DOMAIN self.skills \cup {manifest.name} |->
                               IF n = manifest.name
                               THEN validate_manifest(manifest)
                               ELSE self.skills[n]]])

discover(self) ==
    scan(self.skills_dir,
         Registry(self.skills_dir, NoSkills, <<>>, TRUE, FALSE))

ManifestNames == {Missing, "", "pkg"}
ProvidesLists == {MissingList, <<>>, <<"run">>}
RequiresCapabilities ==
    {MissingList, Null, <<"exec.pkg">>, <<"custom.tag">>,
     <<"exec.pkg", "network.external">>}

Items ==
    {Item("notes.txt", FALSE, "none", NoManifestData, FALSE),
     Item("_cache", TRUE, "ok", ManifestData("cache", <<"run">>, <<>>), TRUE),
     Item("empty", TRUE, "none", NoManifestData, TRUE),
     Item("broken", TRUE, "broken", NoManifestData, TRUE)}
    \cup {Item("pkg", TRUE, "ok", ManifestData(name, provides, requires),
               impl) :
            name \in ManifestNames, provides \in ProvidesLists,
            requires \in RequiresCapabilities, impl \in BOOLEAN}

\* a skill directory appears under the skills root
InstallSkill ==
    /\ Len(registry.skills_dir) < MaxSkillDirs
    /\ \E item \in Items :
        registry' = Registry(Append(registry.skills_dir, item),
                             registry.skills, registry.discovery_errors,
                             FALSE, FALSE)
    /\ UNCHANGED <<agents, osEnviron, execVars, taskVars, memFile, memVars,
                   concVars, boxVars, swarmVars, graphVars, capCheck,
                   coord>>

Discover ==
    /\ registry' = discover(registry)
    /\ UNCHANGED <<agents, osEnviron, execVars, taskVars, memFile, memVars,
                   concVars, boxVars, swarmVars, graphVars, capCheck,
                   coord>>

RegistryIdle == registry = Registry(<<>>, NoSkills, <<>>, FALSE, FALSE)

(***************************************************************************)
(* agentd.py: the capability checks of the public API                      *)
(***************************************************************************)
MaxCapChecks == 2      \* denied checks logged per behaviour of SpecCaps

CapCheck(op, agent_name, subject, allowed, error) ==
    [op |-> op, agent |-> agent_name, subject |-> subject,
     allowed |-> allowed, error |-> error]

NoCapCheck == CapCheck(None, None, None, FALSE, NoError)

\* check_agent_capability
check_agent_capability(agent_name, capability) ==
    IF agent_name \notin DOMAIN agents
    THEN CapCheck("check_agent_capability", agent_name, capability, FALSE,
                  AgentError("unknown_error", agent_name, None, 0))
    ELSE LET c == _check_capability(agents[agent_name], capability)
         IN  CapCheck("check_agent_capability", agent_name, capability,
                      c.ok, c.error)

CheckAgentCapability ==
    /\ Len(logFile) < MaxCapChecks
    /\ \E agent_name \in DOMAIN agents \cup {"ghost"}, capability \in TaskTags :
        LET r == check_agent_capability(agent_name, capability)
        IN  /\ capCheck' = r
            /\ logFile' = IF agent_name \in DOMAIN agents
                          THEN logFile \o _check_capability(
                                   agents[agent_name], capability).log
                          ELSE logFile
    /\ UNCHANGED <<agents, osEnviron, execVars, skillsDir, memFile, pc, task,
                   steps, execResult, taskResult, raised, events, tasksRun,
                   memVars, concVars, boxVars, swarmVars, graphVars,
                   registry, coord>>

\* _check_skill_capabilities, called on a loaded agent
CheckSkillCapabilities ==
    /\ Len(logFile) < MaxCapChecks
    /\ \E agent_name \in DOMAIN agents, skill_name \in DOMAIN skillsDir :
        LET c == _check_skill_capabilities(agents[agent_name], skill_name)
        IN  /\ capCheck' = CapCheck("_check_skill_capabilities", agent_name,
                                    skill_name, c.ok, c.error)
            /\ logFile' = logFile \o c.log
    /\ UNCHANGED <<agents, osEnviron, execVars, skillsDir, memFile, pc, task,
                   steps, execResult, taskResult, raised, events, tasksRun,
                   memVars, concVars, boxVars, swarmVars, graphVars,
                   registry, coord>>

CapIdle == capCheck = NoCapCheck

(***************************************************************************)
(* swarm.py, signals.py: several agents on one swarm directory             *)
(*                                                                         *)
(* create_swarm_interface builds one SwarmCoordinator per agent: the       *)
(* threading.Lock of emit is per coordinator and excludes nothing between  *)
(* agents.  _read_index and _write_index each hold the file lock for one   *)
(* read or one write, so an emit is two steps: it reads the index, then    *)
(* saves the signal and writes back the index it has read.                 *)
(***************************************************************************)
MaxFleetCalls == 2     \* emit calls per agent in a behaviour of SpecFleet

Fleet == {"a1", "a2"}
FleetTarget == "t1"
ClaimThreshold == 30
ClaimTtl == 120
ReleaseTtl == 60
DefaultTtl == 3600

\* pc, local: the index emit has read, triple, ttl: the emit under way;
\* free: the last is_task_claimed answered (False, None) and no claim was
\* made since; calls: emits begun; returned: triples whose emit returned;
\* decayed_at: clock of the last decay cycle of the agent, -1 if none
Coordinator(cpc, local, triple, ttl, free, calls, returned, decayed_at) ==
    [pc |-> cpc, local |-> local, triple |-> triple, ttl |-> ttl,
     free |-> free, calls |-> calls, returned |-> returned,
     decayed_at |-> decayed_at]

IdleCoordinator ==
    Coordinator("idle", EmptyIndex(0), Triple(None, None, None), 0, FALSE, 0,
                {}, -1)

\* the search of emit in the index it has read
existing_id_in(idx, triple) ==
    LET ids == {i \in DOMAIN idx.signals : TripleOf(idx.signals[i]) = triple}
    IN IF ids = {} THEN 0
       ELSE CHOOSE i \in ids : \A j \in ids : i <= j

\* SignalSensor.is_task_claimed
is_task_claimed(agent_name, target) ==
    LET claims == sense({"claiming", "working"}, target, ClaimThreshold,
                        DefaultLimit)
        others == {i \in 1..Len(claims) :
                     claims[i].source_agent # agent_name}
    IN IF others = {} THEN [claimed |-> FALSE, by |-> None]
       ELSE [claimed |-> TRUE,
             by |-> claims[CHOOSE i \in others :
                              \A j \in others : i <= j].source_agent]

IsTaskClaimed(a) ==
    /\ coord[a].pc = "idle"
    /\ coord' = [coord EXCEPT ![a].free =
                    ~is_task_claimed(a, FleetTarget).claimed]
    /\ UNCHANGED <<agents, osEnviron, execVars, taskVars, memFile, memVars,
                   concVars, boxVars, swarmVars, graphVars, registry,
                   capCheck>>

\* emit up to _read_index; claim_task only after the target was reported
\* unclaimed, release_task and report_success at any time
EmitBegin(a) ==
    /\ coord[a].pc = "idle"
    /\ coord[a].calls < MaxFleetCalls
    /\ idsUsed + Cardinality({b \in Fleet : coord[b].pc = "emit"})
           < MaxSignals
    /\ \E signal_type \in {"claiming", "releasing", "success"} :
        /\ signal_type = "claiming" => coord[a].free
        /\ coord' = [coord EXCEPT
               ![a].pc = "emit",
               ![a].local = index,
               ![a].triple = Triple(signal_type, a, FleetTarget),
               ![a].ttl = IF signal_type = "claiming" THEN ClaimTtl
                          ELSE IF signal_type = "releasing" THEN ReleaseTtl
                          ELSE DefaultTtl,
               ![a].free = FALSE,
               ![a].calls = @ + 1]
    /\ UNCHANGED <<agents, osEnviron, execVars, taskVars, memFile, memVars,
                   concVars, boxVars, swarmVars, graphVars, registry,
                   capCheck>>

\* the rest of emit: reinforce the signal found, or save a new one and
\* write the index read at the beginning with the new entry
EmitEnd(a) ==
    /\ coord[a].pc = "emit"
    /\ LET triple == coord[a].triple
           id == existing_id_in(coord[a].local, triple)
       IN IF id # 0 /\ id \in DOMAIN signalFiles
          THEN /\ signalFiles' = [signalFiles EXCEPT
                                     ![id] = reinforce(@, clock)]
               /\ UNCHANGED <<index, idsUsed>>
          ELSE LET signal == Signal(idsUsed + 1, triple.signal_type, a,
                                    triple.target, FullStrength,
                                    NoSignalData, clock, coord[a].ttl)
               IN /\ signalFiles' = Put(signalFiles, signal.id, signal)
                  /\ index' = [coord[a].local EXCEPT !.signals =
                                  Put(@, signal.id, IndexEntry(signal))]
                  /\ idsUsed' = idsUsed + 1
    /\ coord' = [coord EXCEPT ![a].pc = "idle",
                              ![a].returned = @ \cup {coord[a].triple}]
    /\ UNCHANGED <<agents, osEnviron, execVars, taskVars, memFile, memVars,
                   concVars, boxVars, clock, emitted, swarmCall, sensed,
                   graphVars, registry, capCheck>>

\* maybe_decay up to its test of last_decay
MaybeDecayBegin(a) ==
    /\ coord[a].pc = "idle"
    /\ clock - index.last_decay > decay_interval
    /\ coord' = [coord EXCEPT ![a].pc = "decay"]
    /\ UNCHANGED <<agents, osEnviron, execVars, taskVars, memFile, memVars,
                   concVars, boxVars, swarmVars, graphVars, registry,
                   capCheck>>

\* the decay_all that maybe_decay calls after the test
MaybeDecayEnd(a) ==
    /\ coord[a].pc = "decay"
    /\ decay_all
    /\ coord' = [coord EXCEPT ![a].pc = "idle", ![a].decayed_at = clock]
    /\ UNCHANGED <<agents, osEnviron, execVars, taskVars, memFile, memVars,
                   concVars, boxVars, clock, idsUsed, sensed, graphVars,
                   registry, capCheck>>

\* time passes
FleetTick ==
    /\ clock < MaxClock
    /\ clock' = clock + TickSeconds
    /\ UNCHANGED <<agents, osEnviron, execVars, taskVars, memFile, memVars,
                   concVars, boxVars, index, signalFiles, idsUsed, emitted,
                   swarmCall, sensed, graphVars, registry, capCheck, coord>>

FleetIdle == coord = [a \in Fleet |-> IdleCoordinator]

Environs == {NoEnv, [NoEnv EXCEPT !["http_proxy"] = "http://proxy"],
             [x \in EnvVars |-> IF x = "no_proxy" THEN "localhost"
                                ELSE "http://proxy"]}

\* SpecExec: one agent, the executor run_task builds for it, any calls
InitExec ==
    /\ \E capabilities \in SUBSET ExecTags :
        /\ agents = [n \in {"demo"} |->
                       AgentConfig("demo", capabilities, {}, TaskMemLimit,
                                   DefaultMaxTaskTimeout)]
        /\ executor = AgentExecutor("demo", capabilities)
    /\ osEnviron \in Environs
    /\ ExecIdle
    /\ skillsDir = [n \in {} |-> NoSkillDirectory]
    /\ memFile = MissingFile
    /\ TaskIdle
    /\ MemIdle
    /\ ConcIdle
    /\ BoxIdle
    /\ SwarmIdle
    /\ GraphIdle
    /\ RegistryIdle
    /\ CapIdle
    /\ FleetIdle

NextExec ==
    \/ ExecutorRun
    \/ ExecutorRunShell
    \/ ExecutorRunPython
    \/ CheckNetworkAccess
    \/ ExecReturn

SpecExec == InitExec /\ [][NextExec]_vars

\* SpecTask: one loaded agent, one skill directory, a memory file that may
\* have been written out of band (grown, or left unparsable), then run_task
\* calls one after the other
TaskMemFiles ==
    {MissingFile, InitialDocument, [InitialDocument EXCEPT !.valid = FALSE]}
    \cup {[InitialDocument EXCEPT
               !.data = [k \in {"blob"} |-> JsonValue("string", size)]] :
            size \in {TaskMemLimit - 2, TaskMemLimit - 1, TaskMemLimit}}

InitTask ==
    /\ \E capabilities \in SUBSET TaskTags, skills \in SUBSET {"pkg"} :
        agents = [n \in {"demo"} |->
                    AgentConfig("demo", capabilities, skills, TaskMemLimit,
                                DefaultMaxTaskTimeout)]
    /\ executor = AgentExecutor(None, {})
    /\ osEnviron \in Environs
    /\ ExecIdle
    /\ skillsDir \in [{"pkg"} -> SkillDirectories]
    /\ memFile \in TaskMemFiles
    /\ TaskIdle
    /\ MemIdle
    /\ ConcIdle
    /\ BoxIdle
    /\ SwarmIdle
    /\ GraphIdle
    /\ RegistryIdle
    /\ CapIdle
    /\ FleetIdle

NextTask ==
    \/ RunTaskStart
    \/ LoadMemory
    \/ SetupSandbox
    \/ CreateExecutor
    \/ ExecuteTask
    \/ UpdateMemory

SpecTask == InitTask /\ [][NextTask]_vars

\* SpecMem: calls on one AgentMemory instance, a single writer
MemKeys == {"a", "b"}
PyTypes == {"str", "list", "tuple"}
MemValues == {PyValue(type, size) : type \in PyTypes, size \in 1..MaxValue}
DataMaps == UNION {[ks -> MemValues] : ks \in SUBSET MemKeys}

\* The call just made on the instance.  A blocked call never releases
\* self._lock, so every later call on the instance waits as well.
MemCall(op, key, arg, r) ==
    [op |-> op, key |-> key, arg |-> arg, returned |-> r.value,
     blocked |-> r.blocked]

MemSave ==
    /\ ~memCall.blocked
    /\ \E data \in DataMaps :
        LET r == save(memFile, data)
        IN /\ memFile' = r.file
           /\ memCall' = MemCall("save", None, PyNone, r)
    /\ UNCHANGED <<agents, osEnviron, execVars, taskVars, nAppended,
                   concVars, boxVars, swarmVars,
                   graphVars, registry, capCheck, coord>>

MemSet ==
    /\ ~memCall.blocked
    /\ \E key \in MemKeys, value \in MemValues :
        LET r == set(memFile, key, value)
        IN /\ memFile' = r.file
           /\ memCall' = MemCall("set", key, value, r)
    /\ UNCHANGED <<agents, osEnviron, execVars, taskVars, nAppended,
                   concVars, boxVars, swarmVars,
                   graphVars, registry, capCheck, coord>>

\* get(key) with the default None
MemGet ==
    /\ ~memCall.blocked
    /\ \E key \in MemKeys :
        LET r == get(memFile, key, PyNone)
        IN /\ memFile' = r.file
           /\ memCall' = MemCall("get", key, PyNone, r)
    /\ UNCHANGED <<agents, osEnviron, execVars, taskVars, nAppended,
                   concVars, boxVars, swarmVars,
                   graphVars, registry, capCheck, coord>>

\* The writer numbers its entries: entry n is its n-th completed append
MemAppendHistory ==
    /\ ~memCall.blocked
    /\ nAppended < MaxAppends
    /\ LET r == append_history(memFile, [task_id |-> nAppended + 1,
                                         success |-> TRUE])
       IN /\ memFile' = r.file
          /\ memCall' = MemCall("append_history", None, PyNone, r)
          /\ nAppended' = IF r.blocked THEN nAppended ELSE nAppended + 1
    /\ UNCHANGED <<agents, osEnviron, execVars, taskVars,
                   concVars, boxVars, swarmVars,
                   graphVars, registry, capCheck, coord>>

MemClearHistory ==
    /\ ~memCall.blocked
    /\ LET r == clear_history(memFile)
       IN /\ memFile' = r.file
          /\ memCall' = MemCall("clear_history", None, PyNone, r)
          /\ nAppended' = IF r.blocked THEN nAppended ELSE 0
    /\ UNCHANGED <<agents, osEnviron, execVars, taskVars,
                   concVars, boxVars, swarmVars,
                   graphVars, registry, capCheck, coord>>

MemClearAll ==
    /\ ~memCall.blocked
    /\ LET r == clear_all(memFile)
       IN /\ memFile' = r.file
          /\ memCall' = MemCall("clear_all", None, PyNone, r)
    /\ nAppended' = 0
    /\ UNCHANGED <<agents, osEnviron, execVars, taskVars,
                   concVars, boxVars, swarmVars,
                   graphVars, registry, capCheck, coord>>

\* Out of band: the file's content stops being parsable JSON while no call
\* is in progress (the case _read_file's except clause is written for).
\* memCall is the last call made since the file was last touched out of
\* band.
CorruptFile ==
    /\ ~memCall.blocked
    /\ memFile.valid
    /\ memFile' = [memFile EXCEPT !.valid = FALSE]
    /\ memCall' = NoMemCall
    /\ UNCHANGED <<agents, osEnviron, execVars, taskVars, nAppended,
                   concVars, boxVars, swarmVars,
                   graphVars, registry, capCheck, coord>>

\* Out of band: the file is removed while no call is in progress
\* (_read_file's FileNotFoundError)
RemoveFile ==
    /\ ~memCall.blocked
    /\ memFile.exists
    /\ memFile' = MissingFile
    /\ memCall' = NoMemCall
    /\ UNCHANGED <<agents, osEnviron, execVars, taskVars, nAppended,
                   concVars, boxVars, swarmVars,
                   graphVars, registry, capCheck, coord>>

InitMem ==
    /\ agents = [n \in {"demo"} |->
                   AgentConfig("demo", {}, {}, MemLimit,
                               DefaultMaxTaskTimeout)]
    /\ executor = AgentExecutor(None, {})
    /\ osEnviron = NoEnv
    /\ ExecIdle
    /\ skillsDir = [n \in {} |-> NoSkillDirectory]
    /\ memFile = AgentMemory(MissingFile)
    /\ TaskIdle
    /\ MemIdle
    /\ ConcIdle
    /\ BoxIdle
    /\ SwarmIdle
    /\ GraphIdle
    /\ RegistryIdle
    /\ CapIdle
    /\ FleetIdle

NextMem ==
    \/ MemSave
    \/ MemSet
    \/ MemGet
    \/ (nAppended < MaxShortHistory /\ MemAppendHistory)
    \/ MemClearHistory
    \/ MemClearAll
    \/ CorruptFile
    \/ RemoveFile

SpecMem == InitMem /\ [][NextMem]_vars

\* SpecHistory: the same instance, one writer that appends, sets one key and
\* clears the history
MemSetOne ==
    /\ ~memCall.blocked
    /\ "a" \notin DOMAIN memFile.data
    /\ LET value == PyValue("str", 1)
           r == set(memFile, "a", value)
       IN /\ memFile' = r.file
          /\ memCall' = MemCall("set", "a", value, r)
    /\ UNCHANGED <<agents, osEnviron, execVars, taskVars, nAppended,
                   concVars, boxVars, swarmVars,
                   graphVars, registry, capCheck, coord>>

NextHistory ==
    \/ MemAppendHistory
    \/ MemClearHistory
    \/ MemSetOne

SpecHistory == InitMem /\ [][NextHistory]_vars

(***************************************************************************)
(* memory.py under concurrency: SpecConc.  Each thread holds its own       *)
(* AgentMemory instance for the same agent, as run_task creates one per    *)
(* task, so self._lock (one per instance) orders nothing between threads   *)
(* and only fcntl.flock does.  _read_file is open('r'), flock(LOCK_SH),    *)
(* json.load, unlock; _write_file is open('w'), which truncates the file,  *)
(* then flock(LOCK_EX), json.dump, unlock.                                 *)
(***************************************************************************)
\* The file right after open(memory_file, 'w'): zero bytes, no JSON
TruncatedFile ==
    [exists |-> TRUE, valid |-> FALSE, data |-> NoData, history |-> <<>>]

ConcCalls ==
    {[op |-> "get", key |-> k, arg |-> PyNone] : k \in MemKeys}
    \cup {[op |-> "set", key |-> k, arg |-> PyValue("str", 1)] :
            k \in MemKeys}
    \cup {[op |-> "append_history", key |-> None, arg |-> PyNone]}

\* The id under which thread p's next append_history entry is written
NextTaskId(p) == (p - 1) * MaxConcCalls + Len(thread[p].completed) + 1

\* The call of thread state t returns `value`
Returns(t, task_id, value) ==
    [t EXCEPT !.pc = "idle",
              !.completed = Append(@, [op |-> t.op, key |-> t.key,
                                       arg |-> t.arg, task_id |-> task_id,
                                       returned |-> value])]

\* A thread enters get, set or append_history; each starts with _read_file
ThreadCall ==
    /\ \E p \in Threads, c \in ConcCalls :
        /\ thread[p].pc = "idle"
        /\ Len(thread[p].completed) < MaxConcCalls
        /\ thread' = [thread EXCEPT ![p] =
                         [@ EXCEPT !.pc = "read_lock", !.op = c.op,
                                   !.key = c.key, !.arg = c.arg,
                                   !.phase = IF c.op = "set" THEN "load"
                                             ELSE c.op]]
    /\ UNCHANGED <<agents, osEnviron, execVars, taskVars, memVars, memFile,
                   fileLock,
                   boxVars, swarmVars, graphVars, registry, capCheck,
                   coord>>

\* _read_file: open(memory_file, 'r') and flock(LOCK_SH), which waits while
\* another open file holds LOCK_EX
ReadLock ==
    /\ \E p \in Threads :
        /\ thread[p].pc = "read_lock"
        /\ fileLock.ex = {}
        /\ fileLock' = [fileLock EXCEPT !.sh = @ \cup {p}]
        /\ thread' = [thread EXCEPT ![p].pc = "read_load"]
    /\ UNCHANGED <<agents, osEnviron, execVars, taskVars, memVars, memFile,
                   boxVars, swarmVars, graphVars, registry, capCheck,
                   coord>>

\* _read_file: json.load and unlock, then what the caller does with the
\* document up to its next file operation.  A file that does not parse
\* sends the thread into _init_memory under its own lock, where it stays.
ReadLoad ==
    /\ \E p \in Threads :
        LET t == thread[p]
            r == _read_file(memFile)
            appended == [r.value EXCEPT
                            !.history = keep_last_entries(
                                Append(@, [task_id |-> NextTaskId(p),
                                           success |-> TRUE]))]
            stored == IF t.key \in DOMAIN r.value.data
                      THEN r.value.data[t.key] ELSE PyNone
        IN /\ t.pc = "read_load"
           /\ fileLock' = [fileLock EXCEPT !.sh = @ \ {p}]
           /\ thread' = [thread EXCEPT ![p] =
                 IF r.blocked THEN [t EXCEPT !.pc = "blocked"]
                 ELSE IF t.phase = "get" THEN Returns(t, 0, stored)
                 ELSE IF t.phase = "load"
                 THEN [t EXCEPT !.pc = "read_lock", !.phase = "save",
                                !.data = assign(r.value.data, t.key, t.arg)]
                 ELSE IF t.phase = "save"
                 THEN [t EXCEPT !.pc = "write_open",
                                !.memory = [r.value EXCEPT !.data = t.data]]
                 ELSE [t EXCEPT !.pc = "write_open", !.memory = appended]]
    /\ UNCHANGED <<agents, osEnviron, execVars, taskVars, memVars, memFile,
                   boxVars, swarmVars, graphVars, registry, capCheck,
                   coord>>

\* _write_file: open(memory_file, 'w') truncates the file; no lock is held
WriteOpen ==
    /\ \E p \in Threads :
        /\ thread[p].pc = "write_open"
        /\ memFile' = TruncatedFile
        /\ thread' = [thread EXCEPT ![p].pc = "write_lock"]
    /\ UNCHANGED <<agents, osEnviron, execVars, taskVars, memVars, fileLock,
                   boxVars, swarmVars, graphVars, registry, capCheck,
                   coord>>

\* _write_file: flock(LOCK_EX), which waits while another open file holds
\* LOCK_SH or LOCK_EX
WriteLock ==
    /\ \E p \in Threads :
        /\ thread[p].pc = "write_lock"
        /\ fileLock.ex = {}
        /\ fileLock.sh \ {p} = {}
        /\ fileLock' = [fileLock EXCEPT !.ex = {p}]
        /\ thread' = [thread EXCEPT ![p].pc = "write_dump"]
    /\ UNCHANGED <<agents, osEnviron, execVars, taskVars, memVars, memFile,
                   boxVars, swarmVars, graphVars, registry, capCheck,
                   coord>>

\* _write_file: json.dump of the local document, unlock, and the call
\* returns
WriteDump ==
    /\ \E p \in Threads :
        /\ thread[p].pc = "write_dump"
        /\ memFile' = _write_file(thread[p].memory)
        /\ fileLock' = [fileLock EXCEPT !.ex = {}]
        /\ thread' = [thread EXCEPT ![p] =
                         Returns(thread[p], NextTaskId(p), PyNone)]
    /\ UNCHANGED <<agents, osEnviron, execVars, taskVars, memVars,
                   boxVars, swarmVars, graphVars, registry, capCheck,
                   coord>>

NextConc ==
    \/ ThreadCall
    \/ ReadLock
    \/ ReadLoad
    \/ WriteOpen
    \/ WriteLock
    \/ WriteDump

SpecConc == InitMem /\ [][NextConc]_vars

(***************************************************************************)
(* Properties                                                              *)
(***************************************************************************)
Demo == agents["demo"]

\* The call recorded in exCall is run() on a non-empty command
RunCalled == exCall.called /\ exCall.op = "run" /\ exCall.command # <<>>

\* The host a command line names, None when it names none
CommandTarget(command) ==
    IF Len(command) >= 2 THEN command[2][1] ELSE None

\* C1: an agent holding network.none is denied every network operation,
\* whatever the target and whatever other network tags it holds:
\* check_network_access answers allowed=false with network_violation, and
\* run() rejects every network binary without spawning a process.
C1_NetworkNoneDeniesAll ==
    "network.none" \in Demo.capabilities =>
        /\ (netCheck.called /\ netCheck.found) =>
               /\ ~netCheck.allowed
               /\ netCheck.error.error_type = "network_violation"
        /\ (RunCalled /\ basename(exCall.command[1]) \in NETWORK_COMMANDS) =>
               /\ exOutcome = "CapabilityError"
               /\ ~exProc.spawned

\* C1 witness: network.none together with network.external, curl against an
\* external host, rejected
C1_Witness ==
    /\ {"network.none", "network.external", "network.local"}
           \subseteq Demo.capabilities
    /\ RunCalled
    /\ exCall.command = <<<<"usr", "bin", "curl">>, <<"example.com">>>>
    /\ exOutcome = "CapabilityError"
    /\ ~exProc.spawned

\* C2: for a run() whose binary basename is in the binary-to-capability
\* table, a process is spawned only if the agent holds the mapped tag;
\* without the tag the call ends in a capability error and nothing is
\* spawned, whatever cwd, env, timeout and check are.  No entry point spawns
\* a tabled binary without its tag.
C2_CapabilityTableGate ==
    /\ (RunCalled /\ BINARY_CAPABILITIES(basename(exCall.command[1])) # None)
           =>
           LET tag == BINARY_CAPABILITIES(basename(exCall.command[1]))
           IN /\ exProc.spawned => tag \in Demo.capabilities
              /\ tag \notin Demo.capabilities =>
                     exOutcome = "CapabilityError" /\ ~exProc.spawned
    /\ (exProc.spawned
            /\ BINARY_CAPABILITIES(basename(exProc.command[1])) # None) =>
           BINARY_CAPABILITIES(basename(exProc.command[1]))
               \in Demo.capabilities

\* C2 witness: /usr/bin/apt without exec.pkg, non-default cwd, env, timeout
\* and check, rejected
C2_Witness ==
    /\ RunCalled
    /\ exCall.command[1] = <<"usr", "bin", "apt">>
    /\ "exec.pkg" \notin Demo.capabilities
    /\ exCall.cwd # None /\ exCall.env # {} /\ exCall.timeout = 4000
    /\ ~exCall.check
    /\ exOutcome = "CapabilityError"
    /\ ~exProc.spawned

\* C3: a network binary is spawned by the gated executor only if the network
\* policy (_check_network_access) allows the agent the command's target; in
\* particular not with network.local alone against a non-loopback target.
C3_NetworkPolicyGate ==
    (exProc.spawned /\ basename(exProc.command[1]) \in NETWORK_COMMANDS) =>
        _check_network_access(Demo, CommandTarget(exProc.command)).allowed

\* The running task is a skill call of a loaded agent
SkillCallRunning ==
    /\ pc # "idle"
    /\ task.agent_name \in DOMAIN agents
    /\ is_skill_call(task.task)

CalledSkill == SkillDir(skill_name_of(task.task))

\* Indices of the called skill's required tags that the agent lacks
MissingTags ==
    {i \in 1..Len(CalledSkill.requires) :
        CalledSkill.requires[i] \notin RunningAgent.capabilities}

\* C4: for a skill call, the admission checks are applied in the order
\* declared -> present in the skills root -> capabilities covered, and the
\* first failing one is reported (skill_not_allowed, skill_missing,
\* capability_denied naming the first missing tag); the task result then has
\* status=error and the skill function was not invoked.
C4_AdmissionOrder ==
    (SkillCallRunning /\ execResult.present) =>
        LET name == skill_name_of(task.task)
            err == execResult.error
            rejected ==
                /\ ~execResult.success
                /\ "load" \notin Range(events)
                /\ "invoke" \notin Range(events)
                /\ taskResult.returned => taskResult.status = "error"
        IN IF name \notin RunningAgent.skills
           THEN err.error_type = "skill_not_allowed" /\ rejected
           ELSE IF ~CalledSkill.dir
           THEN err.error_type = "skill_missing" /\ rejected
           ELSE IF CalledSkill.manifest /\ MissingTags # {}
           THEN /\ err.error_type = "capability_denied"
                /\ \E i \in MissingTags :
                       /\ err.required = CalledSkill.requires[i]
                       /\ \A j \in MissingTags : i <= j
                /\ rejected
           ELSE err.error_type \notin
                    {"skill_not_allowed", "capability_denied"}

\* C4 witness: declared skill whose second required tag is the first one
\* the agent lacks; the returned result reports exactly that tag
C4_Witness ==
    /\ SkillCallRunning
    /\ taskResult.returned
    /\ taskResult.status = "error"
    /\ CalledSkill.requires = <<"network.external", "exec.pkg">>
    /\ RunningAgent.capabilities = {"network.external", "custom.tag"}
    /\ taskResult.result.error.error_type = "capability_denied"
    /\ taskResult.result.error.required = "exec.pkg"
    /\ "invoke" \notin Range(events)

\* C5: a skill that fails manifest validation (empty provides, a required
\* tag outside the vocabulary, network.external required, or no
\* implementation file) is never loaded or invoked by run_task.
C5_InvalidSkillNeverLoaded ==
    (SkillCallRunning /\ CalledSkill.manifest
         /\ ~_validate_manifest(CalledSkill)) =>
        /\ "load" \notin Range(events)
        /\ "invoke" \notin Range(events)

\* C6: every run_task result with status error carries a typed error record
\* in its error field.
C6_ErrorResultHasRecord ==
    (taskResult.returned /\ taskResult.status = "error") =>
        /\ taskResult.error.error_type \in AgentErrorType
        /\ taskResult.error.agent = taskResult.agent

\* C7: every run_task call returns a task result whose status is success or
\* error: no exception reaches the caller and the call is never left
\* waiting, whichever pipeline step fails.
C7_AlwaysReturnsResult ==
    /\ ~raised
    /\ pc # "blocked"
    /\ pc = "done" =>
           /\ taskResult.returned
           /\ taskResult.status \in {"success", "error"}

TaskSideEffects == {"sandbox", "executor", "validate", "load", "invoke",
                    "append_history"}

\* C8: when the memory file is over the agent's limit at the memory step of
\* a task, that step ends the task: status=error with a memory_error record
\* carrying the observed size, the only step recorded is the failed
\* load_memory, and no sandbox setup, executor construction, skill
\* invocation or history append has happened for the task.
C8_OversizeStep ==
    (pc = "load_memory"
         /\ SerializedSize(memFile) > RunningAgent.max_memory_bytes) =>
        /\ pc' = "done"
        /\ taskResult'.returned
        /\ taskResult'.status = "error"
        /\ taskResult'.error.error_type = "memory_error"
        /\ taskResult'.error.size_bytes = SerializedSize(memFile)
        /\ taskResult'.steps =
               <<TaskStep(1, "load_memory", "failed", "memory_error")>>
        /\ Range(events') \cap TaskSideEffects = {}
        /\ memFile' = memFile

C8_MemoryOversizeRejected == [][C8_OversizeStep]_vars

\* C8 witness: a returned memory_error result for a file one unit over the
\* limit
C8_Witness ==
    /\ pc = "done"
    /\ taskResult.returned
    /\ taskResult.error.error_type = "memory_error"
    /\ taskResult.error.size_bytes = TaskMemLimit + 1
    /\ Len(taskResult.steps) = 1
    /\ SerializedSize(memFile) = TaskMemLimit + 1

\* C9: after any sequence of save, set and append_history calls the stored
\* document's serialized size is at most the agent's memory limit.
C9_MemoryWithinLimit ==
    SerializedSize(memFile) <= Demo.max_memory_bytes

\* C10: after n append_history calls by a single writer on an empty history
\* the history has length min(n, 1000) and holds exactly the most recently
\* appended entries, in append order.
C10_HistoryBound ==
    LET h == memFile.history
    IN /\ Len(h) = Min(nAppended, HistoryLimit)
       /\ \A i \in 1..Len(h) : h[i].task_id = nAppended - Len(h) + i

\* C10 witness: more than 1000 appends, the oldest entries evicted
C10_Witness ==
    /\ nAppended > HistoryLimit
    /\ Len(memFile.history) = HistoryLimit
    /\ memFile.history[1].task_id = nAppended - HistoryLimit + 1
    /\ memFile.history[HistoryLimit].task_id = nAppended

\* The history entries carrying the current task's id
TaskEntries ==
    {i \in 1..Len(memFile.history) :
        memFile.history[i].task_id = task.task_id}

\* C11: a run_task call on a loaded agent that passed the memory-size check
\* and reached task execution has, when it ends, appended exactly one
\* history entry, whose success field equals the task's outcome.
C11_OneHistoryEntryPerTask ==
    (pc = "done" /\ "executor" \in Range(events)) =>
        /\ Cardinality(TaskEntries) = 1
        /\ \A i \in TaskEntries :
               memFile.history[i].success =
                   (taskResult.returned /\ taskResult.status = "success")

\* The step is a set(key, arg) call that returned
SetReturned ==
    /\ memCall'.op = "set"
    /\ ~memCall'.blocked
    /\ memFile'.valid

\* After set(k, v): get(k) from the same instance and from a new instance
\* both return v, every other key and the history are as before
SetThenGet ==
    LET k == memCall'.key
        v == memCall'.arg
    IN /\ get(memFile', k, PyNone).value = v
       /\ get(AgentMemory(memFile'), k, PyNone).value = v
       /\ DOMAIN memFile'.data = DOMAIN memFile.data \cup {k}
       /\ \A j \in DOMAIN memFile.data \ {k} :
              memFile'.data[j] = memFile.data[j]
       /\ memFile'.history = memFile.history

\* A call that is no set, save or clear_all leaves every key as stored
KeysKept ==
    (memCall'.op \in {"get", "append_history", "clear_history"}) =>
        memFile'.data = memFile.data

\* The values json.load gives back as they were handed in: str, list and
\* None among the types of the model (a tuple comes back as a list)
JsonTypes == {"str", "list", "NoneType"}

\* C12 as stated: after set(k, v) returns, get(k) returns v from the same
\* instance and from a new one until a later set, save or clear changes k,
\* and set leaves every other key and the history unchanged, for every
\* value v the store accepts.
C12_SetGetAnyValue ==
    [][(SetReturned => SetThenGet) /\ KeysKept]_vars

\* C12 amended: the same for every v that is a JSON value (str, number,
\* bool, None, list, dict with string keys); a value of another type is
\* stored as its JSON conversion and get returns that conversion.
C12_SetGetJsonValue ==
    [][/\ (SetReturned /\ memCall'.arg.type \in JsonTypes) => SetThenGet
       /\ (SetReturned /\ memCall'.arg.type \notin JsonTypes) =>
              get(memFile', memCall'.key, PyNone).value =
                  json_load(json_dump(memCall'.arg))
       /\ KeysKept]_vars

\* C12 witness: set of a list returned with another key stored and a
\* history entry present, and the file holds the list under the key
C12_Witness ==
    /\ memCall.op = "set"
    /\ ~memCall.blocked
    /\ memFile.valid
    /\ memCall.arg.type = "list"
    /\ get(memFile, memCall.key, PyNone).value = memCall.arg
    /\ DOMAIN memFile.data = MemKeys
    /\ Len(memFile.history) > 0

\* No thread is inside a call
Quiescent == \A p \in Threads : thread[p].pc = "idle"

\* The calls of kind op that returned, over all threads
Completed(op) ==
    {c \in UNION {Range(thread[p].completed) : p \in Threads} : c.op = op}

\* C13: once the concurrent calls have returned, every history entry a
\* completed append_history wrote and every key a completed set wrote is in
\* the file, whatever the interleaving of the threads' reads and writes.
C13_NoLostUpdate ==
    Quiescent =>
        /\ \A c \in Completed("append_history") :
               \E i \in 1..Len(memFile.history) :
                   memFile.history[i].task_id = c.task_id
        /\ \A c \in Completed("set") :
               /\ c.key \in DOMAIN memFile.data
               /\ memFile.data[c.key] = json_dump(c.arg)

\* C14: a read that runs while another thread writes gets a complete
\* document: the file it loads is never empty or partly written.
C14_ReadSeesCompleteDocument ==
    [][\A p \in Threads :
           (thread[p].pc = "read_load" /\ thread'[p].pc # "read_load") =>
               (memFile.exists /\ memFile.valid)]_vars

\* The step is a get or append_history call made on a memory file that is
\* missing or does not parse
ReadsUnparsable ==
    /\ ~(memFile.exists /\ memFile.valid)
    /\ memCall'.op \in {"get", "append_history"}

\* C15: a get or append_history that finds the memory file missing or
\* unparsable reinitializes the document and returns: get gives the default
\* and leaves the fresh empty document, append_history leaves the fresh
\* document with its one entry; the call never blocks.
C15_UnparsableFileRecovered ==
    [][ReadsUnparsable =>
          /\ ~memCall'.blocked
          /\ memFile'.exists /\ memFile'.valid
          /\ memFile'.data = NoData
          /\ memCall'.op = "get" =>
                 (memCall'.returned = PyNone /\ memFile'.history = <<>>)
          /\ memCall'.op = "append_history" =>
                 Len(memFile'.history) = 1]_vars

(***************************************************************************)
(* SpecBox: two loaded agents, the name of one a string prefix of the      *)
(* other's, any filesystem capabilities, the sandboxes directory below     *)
(* PREFIX or elsewhere; then any checks and AgentSandbox calls.            *)
(***************************************************************************)
InitBox ==
    /\ \E caps \in [BoxAgents -> SUBSET BoxTags] :
        agents = [n \in BoxAgents |->
                    AgentConfig(n, caps[n], {}, MemLimit,
                                DefaultMaxTaskTimeout)]
    /\ executor = AgentExecutor(None, {})
    /\ osEnviron = NoEnv
    /\ ExecIdle
    /\ skillsDir = [n \in {} |-> NoSkillDirectory]
    /\ memFile = MissingFile
    /\ TaskIdle
    /\ MemIdle
    /\ ConcIdle
    /\ sandboxesDir \in SandboxesDirs
    /\ boxCall = NoBoxCall
    /\ SwarmIdle
    /\ GraphIdle
    /\ RegistryIdle
    /\ CapIdle
    /\ FleetIdle

NextBox ==
    \/ CheckSandboxAccess
    \/ GetPath
    \/ CreateTaskDir
    \/ WriteFile
    \/ ReadFile

SpecBox == InitBox /\ [][NextBox]_vars

(***************************************************************************)
(* SpecSwarm: one SwarmCoordinator on an empty swarm directory             *)
(***************************************************************************)
NextSwarm ==
    \/ Emit
    \/ ClaimTask
    \/ DecayAll
    \/ Clear
    \/ Tick

SpecSwarm == InitMem /\ [][NextSwarm]_vars

\* The path canonicalizes to a location in the agent's sandbox directory
Inside(path, agent_name) ==
    /\ ~resolve(path).raised
    /\ is_relative_to(resolve(path).path, sandbox_root(agent_name))

\* The last call was check_sandbox_access for a loaded agent
AccessChecked ==
    /\ boxCall.op = "check_sandbox_access"
    /\ boxCall.agent \in DOMAIN agents

\* C16: for distinct loaded agents A and B, whatever A's capabilities and
\* whether or not one name is a string prefix of the other,
\* check_sandbox_access(A, p) returns allowed = false for every path p that
\* canonicalizes into B's sandbox directory
C16_NoAccessToOtherSandbox ==
    \A B \in DOMAIN agents :
        (/\ AccessChecked
         /\ B # boxCall.agent
         /\ Inside(boxCall.path, B))
        => ~boxCall.allowed

\* C17: check_sandbox_access(agent, path) returns allowed = true for every
\* path that canonicalizes inside the agent's own sandbox root, and
\* allowed = false with a sandbox_violation error for every path whose
\* canonical form lies outside it
C17_OwnSandboxOnly ==
    (AccessChecked /\ ~resolve(boxCall.path).raised)
    => IF Inside(boxCall.path, boxCall.agent)
       THEN boxCall.allowed
       ELSE ~boxCall.allowed /\ boxCall.error = "sandbox_violation"

SandboxOps ==
    {"get_tmp_path", "get_work_path", "get_output_path", "get_cache_path",
     "create_task_dir", "write_file", "read_file"}

\* C18: every path that get_tmp_path, get_work_path, get_output_path,
\* get_cache_path, create_task_dir, write_file or read_file returns or
\* touches canonicalizes to a location inside <sandboxes_root>/<agent_name>,
\* for every name argument, names with ".." components and absolute names
\* included
C18_SandboxPathsInside ==
    (boxCall.op \in SandboxOps /\ ~boxCall.raised)
    => Inside(boxCall.target, boxCall.agent)

\* The stored signals of a triple, in a map from ids to Signal
Stored(files, triple) ==
    {i \in DOMAIN files : TripleOf(files[i]) = triple}

\* The one stored signal of a triple
TheSignal(files, triple) ==
    files[CHOOSE i \in DOMAIN files : TripleOf(files[i]) = triple]

\* C19: with a single coordinator and no decay or clear in between, n
\* successive emit calls of one (type, source_agent, target) leave exactly
\* one stored signal of the triple, with reinforcement_count = n - 1 and a
\* strength not below that of the first emit; each repeat adds 0.3 to the
\* strength (capped at 1.0), 600 s to the ttl (capped at 86400) and merges
\* the data map
C19_RepeatedEmitReinforces ==
    [][\A tr \in Triples :
         emitted'[tr].n >= 1 =>
           /\ Cardinality(Stored(signalFiles', tr)) = 1
           /\ TheSignal(signalFiles', tr).reinforcement_count
                  = emitted'[tr].n - 1
           /\ TheSignal(signalFiles', tr).strength >= emitted'[tr].strength
           /\ (emitted[tr].n >= 1 /\ emitted'[tr].n = emitted[tr].n + 1) =>
                /\ TheSignal(signalFiles', tr).strength
                       = Min(FullStrength,
                             TheSignal(signalFiles, tr).strength
                                 + ReinforceAmount)
                /\ TheSignal(signalFiles', tr).ttl
                       = Min(TheSignal(signalFiles, tr).ttl + TtlExtension,
                             MaxTtl)
                /\ TheSignal(signalFiles', tr).data
                       = update(TheSignal(signalFiles, tr).data,
                                swarmCall'.data)]_vars

\* C20: every signal stored on the board has 0 <= strength <= 1 and
\* ttl > 0, after any sequence of emit calls (with any strength and ttl the
\* caller supplies, through claim_task as well), reinforcements and decays
C20_SignalsInRange ==
    \A i \in DOMAIN signalFiles :
        /\ 0 <= signalFiles[i].strength
        /\ signalFiles[i].strength <= FullStrength
        /\ signalFiles[i].ttl > 0

(***************************************************************************)
(* SpecSense: one SwarmCoordinator; signals of positive, negative and      *)
(* neutral types on two targets, lazy decay, and the queries               *)
(***************************************************************************)
NextSense ==
    \/ EmitSignal
    \/ MaybeDecay
    \/ Sense
    \/ GetConsensus
    \/ Tick

SpecSense == InitMem /\ [][NextSense]_vars

\* C21: sense never returns an expired signal (now > created_at + ttl),
\* whatever the filters and whatever emits, reinforcements and decays came
\* before, also when no decay cycle has removed the expired signal yet or it
\* has just been reinforced
C21_SenseReturnsNoExpired ==
    sensed.op = "sense" =>
        \A n \in 1..Len(sensed.signals) :
            clock <= sensed.signals[n].created_at + sensed.signals[n].ttl

\* sense with no filter has returned while the board holds a signal that is
\* expired although it was reinforced
C21_Witness ==
    /\ sensed.op = "sense"
    /\ sensed.signal_types = {}
    /\ sensed.target = None
    /\ sensed.min_strength = 0
    /\ sensed.limit = DefaultLimit
    /\ sensed.signals # <<>>
    /\ \E i \in DOMAIN signalFiles :
        /\ i \in DOMAIN index.signals
        /\ signalFiles[i].reinforcement_count > 0
        /\ clock > signalFiles[i].created_at + signalFiles[i].ttl

\* C22: a sense call made more than 300 s after the last recorded decay
\* cycle runs a decay cycle: the last-decay timestamp is advanced and the
\* expired or weak signals are deleted from the board
C22_SenseRunsDueDecay ==
    [][(sensed'.op = "sense" /\ clock - index.last_decay > decay_interval)
       => /\ index'.last_decay = clock
          /\ \A i \in DOMAIN signalFiles' :
                /\ clock <= signalFiles'[i].created_at + signalFiles'[i].ttl
                /\ signalFiles'[i].strength >= weak_threshold]_vars

\* The signals get_consensus is about: unexpired, of the target (every
\* signal when the target is empty), of a strength that is not negative
Live(target) ==
    {i \in DOMAIN index.signals \cap DOMAIN signalFiles :
       /\ clock <= signalFiles[i].created_at + signalFiles[i].ttl
       /\ signalFiles[i].strength >= 0
       /\ (target = None \/ signalFiles[i].target = target)}

\* The strengths of the signals of `ids` whose type is in `types`, summed
Net(ids, types) ==
    SumOver([i \in ids |-> signalFiles[i].strength],
            {i \in ids : signalFiles[i].signal_type \in types})

\* The verdict of the reference computation for a count and a net score
Verdict(count, net) ==
    IF count = 0 THEN "explore"
    ELSE IF net > 50 THEN "proceed"
    ELSE IF net < -50 THEN "avoid"
    ELSE "caution"

NextGraph ==
    \/ AddNode
    \/ Validate
    \/ Execute
    \/ NextWave
    \/ StartNode
    \/ RunTask

SpecGraph == InitMem /\ [][NextGraph]_vars

(***************************************************************************)
(* Claims on the task graph (SpecGraph)                                    *)
(***************************************************************************)
\* the dependencies of a node that are nodes of the graph
DependsOn(node_id) == node_of(node_id).dependencies \cap NodeIds

RECURSIVE DependenciesWithin(_, _)
DependenciesWithin(ids, k) ==
    IF k = 0
    THEN ids
    ELSE DependenciesWithin(ids \cup UNION {DependsOn(n) : n \in ids}, k - 1)

\* direct and transitive dependencies of a node
TransitiveDeps(node_id) ==
    DependenciesWithin(DependsOn(node_id), Cardinality(GraphNodeIds))

DepsPresent == \A n \in NodeIds : node_of(n).dependencies \subseteq NodeIds

DependencyCycle == \E n \in NodeIds : n \in TransitiveDeps(n)

\* C24: after any sequence of add_node calls, validate() returns valid=true
\* if and only if every dependency of every node names a node of the graph
\* and the dependency relation of the nodes has no cycle.
C24_ValidIffDag ==
    report.op = "validate" =>
        (report.valid <=> (DepsPresent /\ ~DependencyCycle))

Returned == engine.pc = "idle" /\ report.op = "execute"

EverRan == {engine.ran[k][1] : k \in 1..Len(engine.ran)}

RanNow == SubSeq(engine.ran, engine.since + 1, Len(engine.ran))

\* what C26 states of a returned execute
ReportAsStated ==
    /\ \A i \in 1..Len(nodes) : nodes[i].status # "running"
    /\ \A k \in 1..Len(engine.ran) :
          node_of(engine.ran[k][1]).status =
              IF engine.ran[k][2] = "success" THEN "success" ELSE "failed"
    /\ \A n \in NodeIds : node_of(n).status = "pending" <=> n \notin EverRan
    /\ report.status =
          IF \E n \in NodeIds : node_of(n).status = "pending"
          THEN "partial" ELSE "success"
    /\ report.executed = [k \in 1..Len(RanNow) |-> RanNow[k][1]]
    /\ Range(report.pending) = NodeIds \ EverRan
    /\ Len(report.pending) = Cardinality(NodeIds \ EverRan)

\* C26: when execute() returns on a valid graph (every dependency names a
\* node, no cycle), no node is running, a node is in state success iff its
\* task returned status success and failed otherwise, the report status is
\* partial exactly when a node is still pending and success otherwise,
\* executed lists the run nodes in run order and pending lists the rest.
C26_ExecuteReport ==
    (Returned /\ DepsPresent /\ ~DependencyCycle) => ReportAsStated

\* the same on the graphs validate() accepts
ExecuteReportOnAccepted == (Returned /\ report.valid) => ReportAsStated

\* the report holds the failure of node n: its non-success result
FailureCarried(n) ==
    \E r \in report.results : r[1] = n /\ r[2] # "success"

\* C27: the report returned by execute() carries the failure of every node
\* that was run and ended failed, whether its task returned a non-success
\* result or raised.
C27_ReportCarriesFailures ==
    (Returned /\ report.valid) =>
        \A k \in 1..Len(RanNow) :
            RanNow[k][2] # "success" => FailureCarried(RanNow[k][1])

\* C28: the timeout the executor applies to a spawned subprocess never
\* exceeds max_task_timeout_seconds of the agent owning the executor,
\* whatever timeout the caller passes to run, run_shell or run_python.
C28_TimeoutBounded ==
    exProc.spawned =>
        exProc.timeout <= agents[executor.agent_name].max_task_timeout

ProxyVars == {"http_proxy", "https_proxy", "ftp_proxy", "all_proxy",
              "HTTP_PROXY", "HTTPS_PROXY", "FTP_PROXY", "ALL_PROXY"}

Scrubbed ==
    /\ \A x \in ProxyVars : osEnviron[x] = Unset
    /\ osEnviron["no_proxy"] = "*"

AfterScrub == {"memory_open", "sandbox", "load", "invoke"}

\* C29: in every run_task on a loaded agent the proxy scrub (the eight
\* proxy variables removed, no_proxy set to "*") comes before the memory
\* store is opened, the sandbox is made and a skill is loaded or invoked;
\* the step that invokes the skill function starts from a process
\* environment with none of the proxy variables set.
C29_ScrubBeforeTaskSteps ==
    /\ [](\A i \in 1..Len(events) :
            events[i] \in AfterScrub
            => /\ \E j \in 1..(i - 1) : events[j] = "offline"
               /\ Scrubbed)
    /\ [][(pc = "execute_task" /\ "invoke" \in Range(events'))
          => Scrubbed]_vars

\* a first task whose skill function was invoked
C29_Witness ==
    /\ tasksRun = 1
    /\ pc = "done"
    /\ {"memory_open", "sandbox", "invoke"} \subseteq Range(events)
    /\ Scrubbed

\* SpecRegistry: skill directories appear, discover is run
NextRegistry ==
    \/ InstallSkill
    \/ Discover

SpecRegistry == InitMem /\ [][NextRegistry]_vars

(***************************************************************************)
(* Claims on skill discovery (SpecRegistry)                                *)
(***************************************************************************)
\* the four conditions of a valid manifest
FourConditions(skill) ==
    /\ skill.provides # <<>>
    /\ \A i \in 1..Len(skill.requires_capabilities) :
           skill.requires_capabilities[i] \in VALID_CAPABILITIES
    /\ "network.external" \notin Range(skill.requires_capabilities)
    /\ skill.impl

Registered == {registry.skills[n] : n \in DOMAIN registry.skills}

\* the items of the directory discover loads a manifest from
Loaded ==
    {i \in 1..Len(registry.skills_dir) :
        LET item == registry.skills_dir[i]
        IN  item.is_dir /\ ~is_hidden(item.name) /\ item.manifest = "ok"}

\* C30 as stated: after discover() a registered skill is valid if and only
\* if provides is non-empty, every required tag is in the vocabulary,
\* network.external is not required and the implementation file exists;
\* it is valid exactly when its error list is empty, and invalid skills
\* stay registered with a non-empty error list.
C30_ValidIffFourConditions ==
    registry.discovered =>
        /\ \A skill \in Registered :
            /\ skill.valid <=> FourConditions(skill)
            /\ skill.valid <=> skill.validation_errors = <<>>
        /\ ~registry.raised =>
               \A i \in Loaded :
                   from_dict(registry.skills_dir[i].data, TRUE).name
                       \in DOMAIN registry.skills

\* C30 amended: the same with the fifth condition of the code, a non-empty
\* name.
C30_ValidIffNamedAndFourConditions ==
    registry.discovered =>
        /\ \A skill \in Registered :
            /\ skill.valid <=> (skill.name # "" /\ FourConditions(skill))
            /\ skill.valid <=> skill.validation_errors = <<>>
        /\ ~registry.raised =>
               \A i \in Loaded :
                   from_dict(registry.skills_dir[i].data, TRUE).name
                       \in DOMAIN registry.skills

\* a valid skill and an invalid one that meets the four conditions
C30_Witness ==
    /\ registry.discovered
    /\ ~registry.raised
    /\ \E valid, invalid \in Registered :
        /\ valid.valid
        /\ ~invalid.valid
        /\ FourConditions(invalid)
        /\ invalid.validation_errors # <<>>

\* SpecCaps: capability checks on the agents and skills of SpecTask
NextCaps ==
    \/ CheckAgentCapability
    \/ CheckSkillCapabilities

SpecCaps == InitTask /\ [][NextCaps]_vars

(***************************************************************************)
(* Claims on capability checks (SpecCaps)                                  *)
(***************************************************************************)
\* C31: a tag outside the capability vocabulary never grants permission:
\* check_agent_capability does not allow it for an agent that lists it, and
\* the capability check of a skill requiring it does not pass.
C31_UnknownTagNeverGrants ==
    /\ (capCheck.op = "check_agent_capability"
        /\ capCheck.subject \notin KNOWN_CAPABILITIES) => ~capCheck.allowed
    /\ (capCheck.op = "_check_skill_capabilities"
        /\ \E i \in 1..Len(SkillDir(capCheck.subject).requires) :
               SkillDir(capCheck.subject).requires[i]
                   \notin KNOWN_CAPABILITIES) => ~capCheck.allowed

(***************************************************************************)
(* Claims on the log of run_task (SpecTask)                                *)
(***************************************************************************)
Started == LogEntry("run_task", "started")

Terminal == {LogEntry("run_task", "completed"), LogEntry("run_task", "failed")}

is_run_task(entry) == entry.action = "run_task"

\* the run_task entries alternate started, terminal; what follows a
\* terminal entry, and the first line, is a started entry
LogInOrder ==
    LET entries == SelectSeq(logFile, is_run_task)
    IN  /\ \A k \in 1..Len(entries) :
              IF k % 2 = 1 THEN entries[k] = Started
              ELSE entries[k] \in Terminal
        /\ \A i \in 1..Len(logFile) :
              (i = 1 \/ logFile[i - 1] \in Terminal) => logFile[i] = Started

\* a run_task on a loaded agent has ended and left its two entries
LogClosed ==
    (pc = "done" /\ task.agent_name \in DOMAIN agents) =>
        /\ logFile # <<>>
        /\ Last(logFile) \in Terminal

\* C32: every run_task on a loaded agent adds exactly one run_task started
\* entry, before any other entry of the task, and later exactly one
\* terminal run_task entry (completed or failed), after all of them;
\* existing log lines are never modified or removed.
C32_OneStartedOneTerminal ==
    /\ [](LogInOrder /\ LogClosed)
    /\ [][/\ IsPrefix(logFile, logFile')
          /\ (tasksRun' = tasksRun + 1 /\ task'.agent_name \in DOMAIN agents)
             => logFile' = Append(logFile, Started)]_vars

\* the same for the tasks that returned a result
LogOfReturnedTasks ==
    /\ [](LogInOrder /\ (~raised => LogClosed))
    /\ [][/\ IsPrefix(logFile, logFile')
          /\ (tasksRun' = tasksRun + 1 /\ task'.agent_name \in DOMAIN agents
              /\ ~raised')
             => logFile' = Append(logFile, Started)]_vars

\* SpecFleet: two agents, each with its own coordinator, on one swarm
\* directory; every interleaving of their steps
NextFleet ==
    \/ \E a \in Fleet : IsTaskClaimed(a)
    \/ \E a \in Fleet : EmitBegin(a)
    \/ \E a \in Fleet : EmitEnd(a)
    \/ \E a \in Fleet : MaybeDecayBegin(a)
    \/ \E a \in Fleet : MaybeDecayEnd(a)
    \/ FleetTick

SpecFleet == InitMem /\ [][NextFleet]_vars

(***************************************************************************)
(* Claims on several agents on one swarm directory (SpecFleet)             *)
(***************************************************************************)
\* the agents holding a live claim on the target: a CLAIMING signal that
\* is not expired and has strength at least 0.3
Claimants(target) ==
    {signalFiles[i].source_agent :
        i \in {j \in DOMAIN signalFiles :
                 /\ signalFiles[j].signal_type = "claiming"
                 /\ signalFiles[j].target = target
                 /\ ~is_expired(signalFiles[j], clock)
                 /\ signalFiles[j].strength >= ClaimThreshold}}

\* C33: claims are exclusive: when every agent claims a target only after
\* is_task_claimed reported it unclaimed, no two agents hold a live
\* CLAIMING signal on the same target, in every interleaving.
C33_ClaimsExclusive == Cardinality(Claimants(FleetTarget)) <= 1

\* agent a has claimed the target and its last call, which has returned,
\* released it
Released(a) ==
    /\ coord[a].pc = "idle"
    /\ coord[a].triple = Triple("releasing", a, FleetTarget)
    /\ Triple("claiming", a, FleetTarget) \in coord[a].returned

\* C34: releasing ends a claim: after agent A has called claim_task(x) and
\* then release_task(x), no other agent claiming or working on x, every
\* other agent's is_task_claimed(x) returns (False, None).
C34_ReleaseEndsClaim ==
    \A a \in Fleet : \A b \in Fleet \ {a} :
        (Released(a) /\ Claimants(FleetTarget) \subseteq {a})
        => ~is_task_claimed(b, FleetTarget).claimed

Distance(x, y) == IF x > y THEN x - y ELSE y - x

\* C36: decay cycles triggered through maybe_decay run at most once per
\* 300 s, also when several agents, each with its own coordinator, call
\* maybe_decay concurrently: the cycles of two agents are more than 300 s
\* apart.
C36_DecayOncePerInterval ==
    \A a \in Fleet : \A b \in Fleet \ {a} :
        (coord[a].decayed_at >= 0 /\ coord[b].decayed_at >= 0)
        => Distance(coord[a].decayed_at, coord[b].decayed_at)
               > decay_interval

\* the index entries of a triple
EntriesOf(triple) ==
    {i \in DOMAIN index.signals : TripleOf(index.signals[i]) = triple}

Sensed(triple) ==
    LET signals == sense({triple.signal_type}, triple.target, 0, DefaultLimit)
    IN  \E i \in 1..Len(signals) : TripleOf(signals[i]) = triple

\* C37: no signal is lost or duplicated under concurrent emits: once the
\* emits of two coordinators on the same directory have returned, every
\* emitted triple has exactly one entry in index.json and a later sense
\* returns it (no decay cycle has run, no time has passed).
C37_NoSignalLost ==
    (\A a \in Fleet : coord[a].pc = "idle" /\ coord[a].decayed_at = -1)
    => \A a \in Fleet : \A triple \in coord[a].returned :
           /\ Cardinality(EntriesOf(triple)) = 1
           /\ clock = 0 => Sensed(triple)

\* The entries of index.json whose signal file is there
Loadable == DOMAIN index.signals \cap DOMAIN signalFiles

\* The loadable signals a decay cycle is to delete: past created_at + ttl,
\* or below the weak threshold
ToDelete ==
    {i \in Loadable :
       \/ clock > signalFiles[i].created_at + signalFiles[i].ttl
       \/ signalFiles[i].strength < weak_threshold}

Lowered(strength) == IF strength > decay_rate THEN strength - decay_rate ELSE 0

DecayDeletes ==
    /\ DOMAIN index'.signals = Loadable \ ToDelete
    /\ DOMAIN signalFiles' = DOMAIN signalFiles \ ToDelete

DecayReturns ==
    /\ swarmCall'.op = "decay_all"
    /\ swarmCall'.data["decayed"] + swarmCall'.data["removed"]
           = Cardinality(DOMAIN index.signals)
    /\ index'.last_decay = clock

JustEmitted ==
    /\ swarmCall.op = "emit"
    /\ swarmCall.signal.updated_at = clock

\* C38: immediately after emit(type, source, target) has returned signal s,
\* sense(signal_types=[type], target=target) with min_strength at most
\* s.strength returns a signal of that (type, source, target), also when an
\* older signal of the triple was still listed in the index.
C38_EmittedIsVisible ==
    JustEmitted =>
        \A min_strength \in {0, swarmCall.signal.strength} :
            LET signals == sense({swarmCall.triple.signal_type},
                                 swarmCall.triple.target, min_strength,
                                 DefaultLimit)
            IN  \E i \in 1..Len(signals) :
                    TripleOf(signals[i]) = swarmCall.triple

(***************************************************************************)
(* SpecGraphFair: SpecGraph where an execute call that has begun keeps     *)
(* running: the loop of execute is ordinary sequential code, and a task    *)
(* returns or raises.                                                      *)
(***************************************************************************)
SpecGraphFair ==
    /\ SpecGraph
    /\ WF_vars(NextWave)
    /\ WF_vars(StartNode)
    /\ WF_vars(RunTask)

====
